---- MODULE Spec2Model ----
(***************************************************************************)
(* Crawl orchestration of the supermarket product crawler.                 *)
(*                                                                         *)
(* One crawl job is modelled: the Express handlers of server/index.js      *)
(* (start, stop, SIGTERM), the async flow of SupermarketCrawler.startCrawl *)
(* with every await as an interleaving point, and the crawl_jobs row of    *)
(* CrawlerDatabase.  The site, the browser and the recognition engines are *)
(* the environment: what they return is chosen nondeterministically.       *)
(***************************************************************************)
EXTENDS Integers, Sequences, FiniteSets, TLC

\* ------------------------------------------------------------------------
\* Bounds of the model
\* ------------------------------------------------------------------------
\* highest page number a listing shows a next-page control towards
MaxPage == 2
\* longest list of category entries the sitemap source returns
MaxSitemap == 2
\* most image URLs a product page carries
MaxImages == 1
\* most collaborator calls that fail in one run
MaxFailures == 2

\* Keep only last 100 errors
LogCap == 100

\* ------------------------------------------------------------------------
\* URLs.  A listing URL is <<path, pagination parameter, page number>>;
\* the parameter is "none" when the URL carries neither `page` nor `p`.
\* ------------------------------------------------------------------------
CategoryUrls == { <<"a", "none", 0>>, <<"a", "page", 2>> }

\* the product URLs the site links to; 0 stands for no product
ProductUrls == {1, 2}

\* a category with five products on its first page, a next-page control
\* there, and a second page without products
ShelfCategory == <<"a", "none", 0>>

ShelfLinks == <<1, 2, 3, 4, 5>>

ShelfPage(pageNum) ==
    [ productUrls |-> IF pageNum = 1 THEN ShelfLinks ELSE <<>>,
      hasNext     |-> pageNum = 1 ]

\* every product URL a listing page can link to
LinkedProductUrls == ProductUrls \cup { ShelfLinks[i] : i \in DOMAIN ShelfLinks }

getPaginatedUrl(url, pageNum) ==
    IF pageNum = 1 THEN url
    ELSE IF url[2] = "page" THEN <<url[1], "page", pageNum>>
    ELSE IF url[2] = "p" THEN <<url[1], "p", pageNum>>
    ELSE <<url[1], "page", pageNum>>

ListingUrls == { getPaginatedUrl(u, n) : u \in CategoryUrls, n \in 1..(MaxPage + 2) }

\* sequences over S of length at most n
SeqsUpTo(S, n) == UNION { [1..k -> S] : k \in 0..n }

\* what the navigation source returns: no link or one category link
NavigationLinks == {<<>>} \cup { <<u>> : u \in CategoryUrls }

\* sequences of pairwise distinct elements
Distinct(s) == \A i, j \in DOMAIN s : i # j => s[i] # s[j]

VARIABLES
    crawler,    \* the SupermarketCrawler instance of the job (its this.* fields)
    job,        \* the crawl_jobs row of the job
    flow,       \* the suspended frame of startCrawl: position and locals
    server,     \* server/index.js: activeCrawlers, SIGTERM received
    chromium,   \* the browser process and its context, as the crawler left them
    obs,        \* what has happened so far (calls made, failures injected)
    products,   \* the products table, by product_id
    images,     \* the images table, in insertion order
    procs,      \* per job, the suspended frame of crawlProduct / processProductImages
    call        \* the application of one function: its inputs and what it did

\* the crawl flow of one job
crawlVars == <<crawler, job, flow, server, chromium, obs>>

\* the record pipeline (products, images) and single function applications;
\* the crawl-flow specification leaves them alone: it abstracts from the
\* content of the records, which the specifications further down cover
recordVars == <<products, images, procs, call>>

vars == <<crawler, job, flow, server, chromium, obs, products, images, procs, call>>

Terminal == {"completed", "failed", "stopped"}

NoStats == [categories |-> 0, products |-> 0, images |-> 0, barcodes |-> 0, errors |-> 0]

\* constructor of SupermarketCrawler
NewCrawler ==
    [ browser |-> "null", context |-> "null", running |-> FALSE,
      stopRequested |-> FALSE, processedUrls |-> {}, discoveredProducts |-> {},
      stats |-> NoStats ]

NoJob ==
    [ status |-> "none", total_categories |-> 0, processed_categories |-> 0,
      total_products |-> 0, processed_products |-> 0, errors |-> 0,
      error_log |-> <<>> ]

NoFlow ==
    [ pc |-> "idle", categories |-> <<>>, catIdx |-> 0, pageNum |-> 0,
      hasMorePages |-> FALSE, productUrls |-> <<>>, prodIdx |-> 0,
      nImages |-> 0, imgIdx |-> 0, err |-> "none", thrown |-> "none",
      openPages |-> {} ]

NoObs ==
    [ loads |-> [u \in ListingUrls |-> 0], handed |-> [p \in LinkedProductUrls |-> 0],
      traversals |-> 0, catResult |-> <<>>, prodFailed |-> 0, failures |-> 0,
      stopAccepted |-> FALSE, discoveries |-> 0 ]

\* the jobs whose product extractions interleave
Jobs == {1, 2}

NoProc ==
    [ pc |-> "idle", url |-> "", sku |-> "null", productId |-> <<>>, imageUrls |-> <<>>, i |-> 0,
      ocrTexts |-> <<>>, ocrFields |-> <<>>, barcodeResult |-> <<>>,
      ocrText |-> <<>>, tag |-> "other", visits |-> 0 ]

NoCall == [fn |-> "none"]

\* empty tables, and no product extraction under way
InitRecords ==
    /\ products = <<>>
    /\ images = <<>>
    /\ procs = <<>>
    /\ call = NoCall

InitCrawl ==
    /\ crawler = NewCrawler
    /\ job = NoJob
    /\ flow = NoFlow
    /\ server = [activeCrawlers |-> FALSE, shutdown |-> FALSE]
    /\ chromium = [browser |-> "none", context |-> "none"]
    /\ obs = NoObs

Init == InitCrawl /\ InitRecords

\* empty tables, and the crawler of every job between two products
InitFrames ==
    /\ InitCrawl
    /\ products = <<>>
    /\ images = <<>>
    /\ procs = [j \in Jobs |-> NoProc]
    /\ call = NoCall

\* the whole state as one value, so that the synchronous code between two
\* awaits composes as functions
World ==
    [ crawler |-> crawler, job |-> job, flow |-> flow, server |-> server,
      chromium |-> chromium, obs |-> obs ]

Becomes(w) ==
    /\ crawler' = w.crawler
    /\ job' = w.job
    /\ flow' = w.flow
    /\ server' = w.server
    /\ chromium' = w.chromium
    /\ obs' = w.obs
    /\ UNCHANGED recordVars

\* ------------------------------------------------------------------------
\* CrawlerDatabase: crawl_jobs
\* ------------------------------------------------------------------------
createJob == [NoJob EXCEPT !.status = "running"]

updateJobStatus(j, status, additionalFields) ==
    [ k \in DOMAIN j |->
        IF k = "status" THEN status
        ELSE IF k \in DOMAIN additionalFields THEN additionalFields[k]
        ELSE j[k] ]

NoFields == [k \in {} |-> 0]

incrementJobCounter(j, field) == [j EXCEPT ![field] = @ + 1]

LastN_Oldest(s, n) == IF Len(s) <= n THEN s ELSE SubSeq(s, 1, n)

\* errors.slice(-100)
LastN(s, n) == IF Len(s) <= n THEN s ELSE SubSeq(s, Len(s) - n + 1, Len(s))

appendJobError(j, error) ==
    [j EXCEPT !.error_log = LastN(Append(@, error), LogCap), !.errors = @ + 1]

\* ------------------------------------------------------------------------
\* SupermarketCrawler.startCrawl: the synchronous code between two awaits.
\* Each operator maps the state at the end of one await to the state at the
\* start of the next one.
\* ------------------------------------------------------------------------

\* the entry a failure leaves in the error log: the product URL the message
\* is prefixed with (0 for a category-level or fatal error) and the message
LogEntry(productUrl, message) == <<productUrl, message>>

\* closeBrowser has made its close calls: it resets the two fields, then
\* startCrawl resets running and returns or throws, and the server's
\* .finally() removes the crawler from activeCrawlers
Settle(w) ==
    [w EXCEPT !.crawler.browser = "null", !.crawler.context = "null",
              !.crawler.running = FALSE,
              !.server.activeCrawlers = FALSE,
              !.flow.pc = "done"]

\* mutant: without a context the browser is not closed
closeBrowser_OnlyWithContext(w) ==
    IF w.crawler.context # "null" THEN [w EXCEPT !.flow.pc = "contextClose"]
    ELSE Settle(w)

\* finally { await this.closeBrowser(); ... }: up to the first close call
closeBrowser(w) ==
    IF w.crawler.context # "null" THEN [w EXCEPT !.flow.pc = "contextClose"]
    ELSE IF w.crawler.browser # "null" THEN [w EXCEPT !.flow.pc = "browserClose"]
    ELSE Settle(w)

\* const status = this.stopRequested ? 'stopped' : 'completed'
FinalStatus(w) == IF w.crawler.stopRequested THEN "stopped" ELSE "completed"

\* "Mark job complete"
Finalize(w) ==
    closeBrowser(
        [w EXCEPT !.job = updateJobStatus(@, FinalStatus(w),
                      [total_products |-> w.crawler.stats.products,
                       processed_products |-> w.crawler.stats.products])])

\* mutant: the outer catch rethrows without recording the failure
FatalCatch_NotRecorded(w, error) ==
    closeBrowser([w EXCEPT !.flow.thrown = error, !.flow.err = "none"])

\* the outer catch of startCrawl
FatalCatch(w, error) ==
    closeBrowser(
        [w EXCEPT !.job = appendJobError(updateJobStatus(@, "failed", NoFields),
                                         LogEntry(0, error)),
                  !.flow.thrown = error,
                  !.flow.err = "none"])

\* if (this.stopRequested) break;   (category loop)
CategoryStopCheck(w) == w.crawler.stopRequested

\* for (const category of categories): the head of the iteration at catIdx,
\* up to the first await of crawlCategory
CategoryLoop(w) ==
    IF w.flow.catIdx > Len(w.flow.categories) THEN Finalize(w)
    ELSE IF CategoryStopCheck(w) THEN Finalize(w)
    ELSE [w EXCEPT !.obs.traversals = @ + 1, !.flow.pc = "catNewPage"]

\* mutant: the category loop does not catch, the failure reaches the outer catch
CategoryCatch_Uncaught(w, error) == FatalCatch(w, error)

\* the catch of the category loop, up to `await this.delay()`
CategoryCatch(w, error) ==
    [w EXCEPT !.job = appendJobError(@, LogEntry(0, error)),
              !.crawler.stats.errors = @ + 1,
              !.obs.catResult = Append(@, "failed"),
              !.flow.err = "none",
              !.flow.pc = "catDelay"]

\* crawlCategory returned, up to `await this.delay()`
CategoryDone(w) ==
    [w EXCEPT !.job = incrementJobCounter(@, "processed_categories"),
              !.crawler.stats.categories = @ + 1,
              !.obs.catResult = Append(@, "ok"),
              !.flow.pc = "catDelay"]

\* while (hasMorePages && !this.stopRequested)
PageLoopCondition(w) == w.flow.hasMorePages /\ ~w.crawler.stopRequested

\* mutant: a page URL loaded before does not end the page loop
AlreadyProcessed_Never(w, pageUrl) == FALSE

\* if (this.processedUrls.has(pageUrl)) break;
AlreadyProcessed(w, pageUrl) == pageUrl \in w.crawler.processedUrls

\* the head of the page loop of crawlCategory, up to `await page.goto(pageUrl)`
\* or, when the loop ends, up to `await page.close()`
PageLoop(w) ==
    LET pageUrl == getPaginatedUrl(w.flow.categories[w.flow.catIdx], w.flow.pageNum)
    IN  IF ~PageLoopCondition(w) THEN [w EXCEPT !.flow.pc = "catClose"]
        ELSE IF AlreadyProcessed(w, pageUrl) THEN [w EXCEPT !.flow.pc = "catClose"]
        ELSE [w EXCEPT !.crawler.processedUrls = @ \cup {pageUrl},
                       !.obs.loads[pageUrl] = @ + 1,
                       !.flow.pc = "listGoto"]

\* mutant: a page without product links does not end the page loop
NoProductLinks_GoesOn(w) == PageLoop([w EXCEPT !.flow.pageNum = @ + 1])

\* if (productUrls.length === 0) { hasMorePages = false; continue; }
NoProductLinks(w) == PageLoop([w EXCEPT !.flow.hasMorePages = FALSE])

\* hasMorePages = await this.hasNextPage(page); pageNum++; and the next
\* evaluation of the page loop
AfterHasNext(w, next) ==
    PageLoop([w EXCEPT !.flow.hasMorePages = next, !.flow.pageNum = @ + 1])

\* mutant: the product loop does not poll the stop flag
ProductStopCheck_NotPolled(w) == FALSE

\* if (this.stopRequested) break;   (product loop)
ProductStopCheck(w) == w.crawler.stopRequested

\* mutant: a product URL seen before is visited again
AlreadyDiscovered_Never(w, productUrl) == FALSE

\* if (this.discoveredProducts.has(productUrl)) continue;
AlreadyDiscovered(w, productUrl) == productUrl \in w.crawler.discoveredProducts

\* for (const productUrl of productUrls): the head of the iteration at
\* prodIdx, up to the first await of crawlProduct or, when the loop ends, up
\* to `await this.hasNextPage(page)`
RECURSIVE ProductLoop(_)
ProductLoop(w) ==
    LET i == w.flow.prodIdx
        productUrl == w.flow.productUrls[i]
    IN  IF i > Len(w.flow.productUrls) THEN [w EXCEPT !.flow.pc = "hasNext"]
        ELSE IF ProductStopCheck(w) THEN [w EXCEPT !.flow.pc = "hasNext"]
        ELSE IF AlreadyDiscovered(w, productUrl)
             THEN ProductLoop([w EXCEPT !.flow.prodIdx = i + 1])
        ELSE [w EXCEPT !.crawler.discoveredProducts = @ \cup {productUrl},
                       !.obs.handed[productUrl] = @ + 1,
                       !.flow.pc = "prodNewPage"]

\* mutant: the product loop does not catch, the failure leaves crawlCategory
ProductCatch_Uncaught(w, error) ==
    [w EXCEPT !.obs.prodFailed = @ + 1, !.flow.err = error, !.flow.pc = "catClose"]

\* the catch of the product loop, up to `await this.delay()`
ProductCatch(w, error) ==
    [w EXCEPT !.job = appendJobError(@, LogEntry(w.flow.productUrls[w.flow.prodIdx], error)),
              !.crawler.stats.errors = @ + 1,
              !.obs.prodFailed = @ + 1,
              !.flow.err = "none",
              !.flow.pc = "prodDelay"]

\* mutant: a product that was processed is not counted
ProductDone_Uncounted(w) ==
    [w EXCEPT !.job = incrementJobCounter(@, "processed_products"),
              !.flow.pc = "prodDelay"]

\* crawlProduct returned, up to `await this.delay()`
ProductDone(w) ==
    [w EXCEPT !.crawler.stats.products = @ + 1,
              !.job = incrementJobCounter(@, "processed_products"),
              !.flow.pc = "prodDelay"]

\* extractProductLinks returned: with no link the page loop ends, else the
\* product loop starts
AfterExtractLinks(w, productUrls) ==
    IF Len(productUrls) = 0
    THEN NoProductLinks([w EXCEPT !.flow.productUrls = productUrls])
    ELSE ProductLoop([w EXCEPT !.flow.productUrls = productUrls, !.flow.prodIdx = 1])

\* "Merge and deduplicate" of discoverCategories
RECURSIVE MergeCategories(_, _)
MergeCategories(categories, navCategories) ==
    IF navCategories = <<>> THEN categories
    ELSE MergeCategories(
            IF \E i \in DOMAIN categories : categories[i] = Head(navCategories)
            THEN categories ELSE Append(categories, Head(navCategories)),
            Tail(navCategories))

\* discoverCategories returned: the status update and the first iteration of
\* the category loop
AfterDiscovery(w) ==
    CategoryLoop(
        [w EXCEPT !.job = updateJobStatus(@, "running",
                      [total_categories |-> Len(w.flow.categories)]),
                  !.flow.catIdx = 1])

\* ------------------------------------------------------------------------
\* server/index.js
\* ------------------------------------------------------------------------

\* stopCrawl()
stopCrawl(c) == [c EXCEPT !.stopRequested = TRUE]

\* POST /api/crawl/start with a well-formed URL: the job row, the crawler
\* instance, its registration, and startCrawl up to `await chromium.launch()`
StartRequest ==
    /\ ~server.shutdown
    /\ flow.pc = "idle"
    /\ job' = createJob
    /\ crawler' = [NewCrawler EXCEPT !.running = TRUE, !.stopRequested = FALSE,
                                     !.processedUrls = {}, !.discoveredProducts = {},
                                     !.stats = NoStats]
    /\ server' = [server EXCEPT !.activeCrawlers = TRUE]
    /\ flow' = [flow EXCEPT !.pc = "launch"]
    /\ UNCHANGED <<chromium, obs>>
    /\ UNCHANGED recordVars

\* POST /api/crawl/stop/:jobId for a crawler found in activeCrawlers
StopRequest ==
    /\ ~server.shutdown
    /\ server.activeCrawlers
    /\ crawler' = stopCrawl(crawler)
    /\ job' = updateJobStatus(job, "stopping", NoFields)
    /\ obs' = [obs EXCEPT !.stopAccepted = TRUE]
    /\ UNCHANGED <<flow, server, chromium>>
    /\ UNCHANGED recordVars

\* process.on('SIGTERM'): stops every active crawler, then server.close().
\* The crawl goes on until the callback of server.close() ends the process,
\* which is a behaviour that takes no further step.
Sigterm ==
    /\ ~server.shutdown
    /\ server' = [server EXCEPT !.shutdown = TRUE]
    /\ IF server.activeCrawlers
       THEN /\ crawler' = stopCrawl(crawler)
            /\ job' = updateJobStatus(job, "stopped", NoFields)
       ELSE UNCHANGED <<crawler, job>>
    /\ UNCHANGED <<flow, chromium, obs>>
    /\ UNCHANGED recordVars

\* ------------------------------------------------------------------------
\* The awaits of startCrawl, in program order.  At(p) holds while the flow
\* is suspended in the await named p.
\* ------------------------------------------------------------------------
At(p) == flow.pc = p

\* page.close() returns and leaves the page open
closePage_Leaked(w, page) == w

\* finally { await page.close(); }: page.close() has returned
closePage(w, page) == [w EXCEPT !.flow.openPages = @ \ {page}]

CanFail == obs.failures < MaxFailures

Failing(w) == [w EXCEPT !.obs.failures = @ + 1]

\* initBrowser: chromium.launch() returns
Launch ==
    /\ At("launch")
    /\ Becomes([World EXCEPT !.crawler.browser = "set", !.chromium.browser = "open",
                               !.flow.pc = "newContext"])

\* initBrowser: browser.newContext() returns
NewContext ==
    /\ At("newContext")
    /\ Becomes([World EXCEPT !.crawler.context = "set", !.chromium.context = "open",
                               !.flow.pc = "route"])

\* initBrowser: context.route() returns; discoverCategories starts with
\* parseSitemap
Route ==
    /\ At("route")
    /\ Becomes([World EXCEPT !.obs.discoveries = @ + 1, !.flow.pc = "sitemap"])

\* a call of initBrowser throws
InitBrowserFails ==
    /\ flow.pc \in {"launch", "newContext", "route"}
    /\ CanFail
    /\ Becomes(FatalCatch(Failing(World), "init"))

\* discoverCategories: parseSitemap returns (it catches its own failures)
Sitemap ==
    /\ At("sitemap")
    /\ \E sitemapCategories \in SeqsUpTo(CategoryUrls, MaxSitemap) :
         Becomes([World EXCEPT !.flow.categories = sitemapCategories,
                               !.flow.pc = "homeNewPage"])

\* discoverCategories: context.newPage() returns
HomeNewPage ==
    /\ At("homeNewPage")
    /\ Becomes([World EXCEPT !.flow.openPages = @ \cup {"home"}, !.flow.pc = "homeGoto"])

\* discoverCategories: context.newPage() throws, outside the try
HomeNewPageFails ==
    /\ At("homeNewPage") /\ CanFail
    /\ Becomes(FatalCatch(Failing(World), "nav"))

\* discoverCategories: the homepage is loaded and its navigation links are
\* extracted and merged (the rows of the categories table are not part of
\* this state); `finally` starts page.close()
HomeGoto ==
    /\ At("homeGoto")
    /\ \E navCategories \in NavigationLinks :
         Becomes([World EXCEPT
                    !.flow.categories = MergeCategories(@, navCategories),
                    !.flow.pc = "homeClose"])

\* discoverCategories: page.goto or the extraction throws; `finally` starts
\* page.close()
HomeGotoFails ==
    /\ At("homeGoto") /\ CanFail
    /\ Becomes([Failing(World) EXCEPT !.flow.err = "nav", !.flow.pc = "homeClose"])

\* discoverCategories: page.close() returns; the function returns or throws
HomeClose ==
    /\ At("homeClose")
    /\ LET w == closePage(World, "home")
       IN  Becomes(IF flow.err # "none" THEN FatalCatch(w, flow.err)
                   ELSE AfterDiscovery(w))

\* crawlCategory: context.newPage() returns; first evaluation of the page loop
CatNewPage ==
    /\ At("catNewPage")
    /\ Becomes(PageLoop([World EXCEPT !.flow.openPages = @ \cup {"listing"},
                                      !.flow.pageNum = 1,
                                      !.flow.hasMorePages = TRUE]))

\* crawlCategory: context.newPage() throws, outside the try
CatNewPageFails ==
    /\ At("catNewPage") /\ CanFail
    /\ Becomes(CategoryCatch(Failing(World), "nav"))

\* crawlCategory: page.goto(pageUrl) returns
ListGoto ==
    /\ At("listGoto")
    /\ Becomes([World EXCEPT !.flow.pc = "scroll"])

\* crawlCategory: handleInfiniteScroll returns
Scroll ==
    /\ At("scroll")
    /\ Becomes([World EXCEPT !.flow.pc = "extractLinks"])

\* crawlCategory: extractProductLinks returns the links of the page, each
\* once; with none the page loop ends, else the product loop starts
ExtractLinks ==
    /\ At("extractLinks")
    /\ \E productUrls \in SeqsUpTo(ProductUrls, Cardinality(ProductUrls)) :
         /\ Distinct(productUrls)
         /\ Becomes(AfterExtractLinks(World, productUrls))

\* crawlCategory: hasNextPage returns; pageNum++ and the next evaluation of
\* the page loop.  The site shows a next-page control up to page MaxPage.
HasNext ==
    /\ At("hasNext")
    /\ \E next \in BOOLEAN :
         /\ next => flow.pageNum < MaxPage
         /\ Becomes(AfterHasNext(World, next))

\* crawlCategory: a call inside the try throws; `finally` starts page.close()
ListingCallFails ==
    /\ flow.pc \in {"listGoto", "scroll", "extractLinks", "hasNext"}
    /\ CanFail
    /\ Becomes([Failing(World) EXCEPT !.flow.err = "nav", !.flow.pc = "catClose"])

\* crawlCategory: page.close() returns; the function returns or throws into
\* the category loop
CatClose ==
    /\ At("catClose")
    /\ LET w == closePage(World, "listing")
       IN  Becomes(IF flow.err # "none" THEN CategoryCatch(w, flow.err)
                   ELSE CategoryDone(w))

\* the delay after a category returns; next iteration of the category loop
CatDelay ==
    /\ At("catDelay")
    /\ Becomes(CategoryLoop([World EXCEPT !.flow.catIdx = @ + 1]))

\* crawlProduct: context.newPage() returns
ProdNewPage ==
    /\ At("prodNewPage")
    /\ Becomes([World EXCEPT !.flow.openPages = @ \cup {"product"}, !.flow.pc = "prodGoto"])

\* crawlProduct: context.newPage() throws, outside the try
ProdNewPageFails ==
    /\ At("prodNewPage") /\ CanFail
    /\ Becomes(ProductCatch(Failing(World), "nav"))

\* crawlProduct: page.goto(productUrl) returns
ProdGoto ==
    /\ At("prodGoto")
    /\ Becomes([World EXCEPT !.flow.pc = "prodExtract"])

\* crawlProduct: extractProductData returns and the record is upserted (the
\* products and images tables are not part of this state); with images
\* processProductImages starts its loop, else `finally` starts page.close()
ProdExtract ==
    /\ At("prodExtract")
    /\ \E n \in 0..MaxImages :
         Becomes([World EXCEPT !.flow.nImages = n, !.flow.imgIdx = 1,
                               !.flow.pc = IF n > 0 THEN "prodImage" ELSE "prodClose"])

\* processProductImages: one iteration of the image loop, from the download
\* to the delay; a failure is caught inside the iteration
ProdImage ==
    /\ At("prodImage")
    /\ \E outcome \in {"saved", "barcode", "failed"} :
         Becomes([World EXCEPT
                    !.crawler.stats.images = IF outcome = "failed" THEN @ ELSE @ + 1,
                    !.crawler.stats.barcodes = IF outcome = "barcode" THEN @ + 1 ELSE @,
                    !.flow.imgIdx = @ + 1,
                    !.flow.pc = IF flow.imgIdx >= flow.nImages THEN "prodClose" ELSE "prodImage"])

\* crawlProduct: a call inside the try throws; `finally` starts page.close()
ProductCallFails ==
    /\ flow.pc \in {"prodGoto", "prodExtract"}
    /\ CanFail
    /\ Becomes([Failing(World) EXCEPT !.flow.err = "nav", !.flow.pc = "prodClose"])

\* crawlProduct: page.close() returns; the function returns or throws into
\* the product loop
ProdClose ==
    /\ At("prodClose")
    /\ LET w == closePage(World, "product")
       IN  Becomes(IF flow.err # "none" THEN ProductCatch(w, flow.err)
                   ELSE ProductDone(w))

\* the delay after a product; next iteration of the product loop
ProdDelay ==
    /\ At("prodDelay")
    /\ Becomes(ProductLoop([World EXCEPT !.flow.prodIdx = @ + 1]))

\* closeBrowser: context.close() returns
ContextClose ==
    /\ At("contextClose")
    /\ LET w == [World EXCEPT !.chromium.context = "closed"]
       IN  Becomes(IF crawler.browser # "null"
                   THEN [w EXCEPT !.flow.pc = "browserClose"]
                   ELSE Settle(w))

\* closeBrowser: browser.close() returns; startCrawl returns or throws
BrowserClose ==
    /\ At("browserClose")
    /\ Becomes(Settle([World EXCEPT !.chromium.browser = "closed"]))

Next ==
    \/ StartRequest \/ StopRequest \/ Sigterm
    \/ Launch \/ NewContext \/ Route \/ InitBrowserFails
    \/ Sitemap \/ HomeNewPage \/ HomeNewPageFails \/ HomeGoto \/ HomeGotoFails \/ HomeClose
    \/ CatNewPage \/ CatNewPageFails \/ ListGoto \/ Scroll \/ ExtractLinks \/ HasNext
    \/ ListingCallFails \/ CatClose \/ CatDelay
    \/ ProdNewPage \/ ProdNewPageFails \/ ProdGoto \/ ProdExtract \/ ProdImage
    \/ ProductCallFails \/ ProdClose \/ ProdDelay
    \/ ContextClose \/ BrowserClose

Spec == Init /\ [][Next]_vars

\* ------------------------------------------------------------------------
\* Properties
\* ------------------------------------------------------------------------

\* position of a status in pending < running < stopping < terminal
Rank(status) ==
    CASE status \in {"none", "pending"} -> 0
      [] status = "running" -> 1
      [] status = "stopping" -> 2
      [] status \in Terminal -> 3

\* C1: the persisted job status never moves backward in the order
\* pending < running < stopping < {stopped, completed, failed}, under every
\* interleaving of the crawl flow with stop requests.
C1_StatusNeverMovesBackward ==
    [][Rank(job'.status) >= Rank(job.status)]_vars

\* C2: once the persisted status is completed, failed or stopped, no later
\* operation changes it.
C2_TerminalStatusIsFinal ==
    [][job.status \in Terminal => job'.status = job.status]_vars

\* C3: a job whose stop request was accepted has status stopped once its
\* crawl has ended, provided no collaborator call failed (the finite form of
\* "eventually reaches stopped and does not stay in stopping").
C3_AcceptedStopEndsStopped ==
    (flow.pc = "done" /\ obs.stopAccepted /\ obs.failures = 0)
        => job.status = "stopped"

\* C7: a job is failed only when acquiring the browser failed; a failure
\* after the browser was acquired never makes the job failed.
C7_FailedOnlyByBrowserAcquisition ==
    job.status = "failed" => flow.thrown = "init"

Last(s) == s[Len(s)]

CountOf(s, v) == Cardinality({ i \in DOMAIN s : s[i] = v })

\* the length of the error log after one more entry
GrownLog(log) == IF Len(log) < LogCap THEN Len(log) + 1 ELSE LogCap

\* C4: while the stop flag is set no category traversal, listing-page load
\* or product visit is started; setting the flag leaves the suspended flow
\* where it is, and a product visit that ends normally has gone through all
\* its images.
C4_StopIsCooperative ==
    [][ /\ crawler.stopRequested =>
              /\ obs'.traversals = obs.traversals
              /\ obs'.loads = obs.loads
              /\ obs'.handed = obs.handed
        /\ crawler'.stopRequested # crawler.stopRequested => flow' = flow
        /\ crawler'.stats.products # crawler.stats.products =>
              flow.imgIdx > flow.nImages
      ]_vars

\* a stop arrived while a product visit was in flight: its image is still to
\* be recognized and a further link of the page is waiting
C4_Witness ==
    /\ crawler.stopRequested
    /\ flow.pc = "prodImage"
    /\ flow.prodIdx < Len(flow.productUrls)
    /\ flow.productUrls[flow.prodIdx + 1] \notin crawler.discoveredProducts

\* the awaits of crawlCategory and of the crawlProduct calls it makes
InCategory ==
    { "catNewPage", "listGoto", "scroll", "extractLinks", "hasNext", "catClose",
      "prodNewPage", "prodGoto", "prodExtract", "prodImage", "prodClose", "prodDelay" }

\* C5: a failure raised while processing one category adds exactly 1 to the
\* error counter and one entry to the error log and leaves the status alone;
\* no step taken inside a category sets the status to failed or makes
\* startCrawl throw; with no stop requested the run goes through every category, the others
\* are counted as processed, and the job ends completed.
C5_CategoryFailureContained ==
    /\ [][ (Len(obs'.catResult) > Len(obs.catResult) /\ Last(obs'.catResult) = "failed") =>
              /\ job'.errors = job.errors + 1
              /\ Len(job'.error_log) = GrownLog(job.error_log)
              /\ Last(job'.error_log) = LogEntry(0, "nav")
              /\ crawler'.stats.errors = crawler.stats.errors + 1
              /\ job'.status = job.status
         ]_vars
    /\ [][ flow.pc \in InCategory => (job'.status # "failed" /\ flow'.thrown = "none") ]_vars
    /\ [](  (flow.pc = "done" /\ ~crawler.stopRequested /\ flow.thrown = "none") =>
              /\ job.status = "completed"
              /\ Len(obs.catResult) = Len(flow.categories)
              /\ crawler.stats.categories = CountOf(obs.catResult, "ok")
              /\ job.processed_categories = CountOf(obs.catResult, "ok")
              /\ job.errors = CountOf(obs.catResult, "failed") + obs.prodFailed )

\* category 2 of 3 failed, categories 1 and 3 were processed
C5_Witness ==
    /\ flow.pc = "done"
    /\ ~crawler.stopRequested
    /\ obs.catResult = <<"ok", "failed", "ok">>
    /\ job.errors = 1
    /\ job.status = "completed"

\* C6: a failure raised while extracting one product adds exactly one entry
\* to the error log and 1 to the error counter, does not count the product as
\* processed and leaves the flow in the product loop; without a stop every
\* link of the page has been handed over when the product loop ends.
C6_ProductFailureContained ==
    /\ [][ obs'.prodFailed # obs.prodFailed =>
              /\ job'.errors = job.errors + 1
              /\ Len(job'.error_log) = GrownLog(job.error_log)
              /\ Last(job'.error_log) = LogEntry(flow.productUrls[flow.prodIdx], "nav")
              /\ crawler'.stats.errors = crawler.stats.errors + 1
              /\ crawler'.stats.products = crawler.stats.products
              /\ job'.processed_products = job.processed_products
              /\ job'.status = job.status
              /\ flow'.pc = "prodDelay"
              /\ flow'.productUrls = flow.productUrls /\ flow'.prodIdx = flow.prodIdx
         ]_vars
    /\ [](  (flow.pc = "hasNext" /\ ~crawler.stopRequested) =>
              \A i \in DOMAIN flow.productUrls :
                  flow.productUrls[i] \in crawler.discoveredProducts )

\* the first product of a page failed and the second one is being visited
C6_Witness ==
    /\ flow.pc = "prodGoto"
    /\ flow.prodIdx = 2
    /\ job.error_log = << LogEntry(flow.productUrls[1], "nav") >>
    /\ crawler.stats.products = 0

\* C8: when acquiring the browser fails the status is set to failed, the
\* error is appended to the error log and rethrown, and no category
\* discovery or traversal takes place.
C8_BrowserFailureIsFatal ==
    /\ [][ /\ (flow.thrown = "none" /\ flow'.thrown = "init") =>
                 /\ job'.status = "failed"
                 /\ job'.errors = job.errors + 1
                 /\ Len(job'.error_log) = GrownLog(job.error_log)
                 /\ Last(job'.error_log) = LogEntry(0, "init")
           /\ flow.thrown = "init" => flow'.thrown = "init"
         ]_vars
    /\ [](  flow.thrown = "init" =>
              /\ obs.discoveries = 0
              /\ obs.traversals = 0
              /\ flow.categories = <<>>
              /\ \A u \in ListingUrls : obs.loads[u] = 0
              /\ \A p \in ProductUrls : obs.handed[p] = 0
              /\ flow.pc \in {"contextClose", "browserClose", "done"} )

\* startCrawl has thrown the browser failure
C8_Witness ==
    /\ flow.pc = "done"
    /\ flow.thrown = "init"
    /\ job.status = "failed"
    /\ job.error_log = << LogEntry(0, "init") >>

\* C9: when startCrawl returns or throws, the browser and the context are
\* closed and the running flag is false.
C9_BrowserReleasedOnExit ==
    flow.pc = "done" =>
        /\ chromium.browser # "open"
        /\ chromium.context # "open"
        /\ ~crawler.running

\* startCrawl threw after a launch whose context creation failed
C9_Witness ==
    /\ flow.pc = "done"
    /\ flow.thrown = "init"
    /\ chromium.browser = "closed"
    /\ chromium.context = "none"

\* C10: within one run every listing-page URL is loaded at most once and
\* every product URL is handed to crawlProduct at most once.
C10_VisitedAtMostOnce ==
    /\ \A u \in ListingUrls : obs.loads[u] <= 1
    /\ \A p \in ProductUrls : obs.handed[p] <= 1

\* page 2 of the first category links product 1 again, which page 1 had
\* handed over, and the visit goes on with product 2
C10_Witness ==
    /\ flow.catIdx = 1 /\ flow.pageNum = 2
    /\ flow.productUrls = <<1, 2>>
    /\ flow.prodIdx = 2 /\ flow.pc = "prodNewPage"
    /\ crawler.stats.products + obs.prodFailed = 1
    /\ ~crawler.stopRequested

\* ------------------------------------------------------------------------
\* Strings and objects
\*
\* A string whose characters the code inspects is the sequence of its
\* characters; a JavaScript object is the function from the keys it defines
\* to their values, and null / undefined is the string "null".
\* ------------------------------------------------------------------------

LowerCaseLetters == <<"a", "b", "c", "d", "e", "f", "g", "h", "i", "j", "k", "l", "m", "n", "o", "p", "q", "r", "s", "t", "u", "v", "w", "x", "y", "z">>

UpperCaseLetters == <<"A", "B", "C", "D", "E", "F", "G", "H", "I", "J", "K", "L", "M", "N", "O", "P", "Q", "R", "S", "T", "U", "V", "W", "X", "Y", "Z">>

Digits == {"0", "1", "2", "3", "4", "5", "6", "7", "8", "9"}

Range(s) == { s[i] : i \in DOMAIN s }

IsAlphanumeric(c) == c \in Range(LowerCaseLetters) \cup Range(UpperCaseLetters) \cup Digits

toUpperChar(c) ==
    IF c \in Range(LowerCaseLetters)
    THEN UpperCaseLetters[CHOOSE i \in DOMAIN LowerCaseLetters : LowerCaseLetters[i] = c]
    ELSE c

toLowerChar(c) ==
    IF c \in Range(UpperCaseLetters)
    THEN LowerCaseLetters[CHOOSE i \in DOMAIN UpperCaseLetters : UpperCaseLetters[i] = c]
    ELSE c

toUpperCase(s) == [i \in DOMAIN s |-> toUpperChar(s[i])]

toLowerCase(s) == [i \in DOMAIN s |-> toLowerChar(s[i])]

\* s.substring(0, n)
substring(s, n) == SubSeq(s, 1, IF Len(s) < n THEN Len(s) ELSE n)

\* s.replace(/[^a-zA-Z0-9]/g, '')
RECURSIVE stripNonAlphanumeric(_)
stripNonAlphanumeric(s) ==
    IF s = <<>> THEN <<>>
    ELSE IF IsAlphanumeric(Head(s)) THEN <<Head(s)>> \o stripNonAlphanumeric(Tail(s))
    ELSE stripNonAlphanumeric(Tail(s))

EmptyObject == [k \in {} |-> "null"]

\* obj.key, undefined when the object does not define the key
Get(obj, key) == IF key \in DOMAIN obj THEN obj[key] ELSE "null"

\* { ...a, ...b }
Spread(a, b) == [k \in DOMAIN a \cup DOMAIN b |-> IF k \in DOMAIN b THEN b[k] ELSE a[k]]

\* the values JavaScript treats as false in `x || y` and `if (x)`
Falsy(v) == v \in {"null", ""}

\* a || b
Or(a, b) == IF Falsy(a) THEN b ELSE a

\* ------------------------------------------------------------------------
\* Product identity and the products table
\* ------------------------------------------------------------------------

\* the product pages of the site
ProductPageUrls ==
    { "https://shop.example/product/green-tea",
      "https://shop.example/product/green-tea?ref=home" }

\* what a page can declare as its SKU: nothing, the empty string, or a string
DeclaredSkus == {"null", "", "gt-100/a", "Gt 100 A", "SKU-2024-GREEN-TEA", "---"}

\* the characters of the declared SKU strings
Chars ==
    "gt-100/a" :> <<"g", "t", "-", "1", "0", "0", "/", "a">> @@
    "Gt 100 A" :> <<"G", "t", " ", "1", "0", "0", " ", "A">> @@
    "SKU-2024-GREEN-TEA" :> <<"S", "K", "U", "-", "2", "0", "2", "4", "-", "G", "R", "E", "E", "N", "-", "T", "E", "A">> @@
    "---" :> <<"-", "-", "-">>

\* crypto.createHash('sha1').update(url).digest('hex'), for the pages of the site
sha1 ==
    "https://shop.example/product/green-tea" :> <<"b", "e", "e", "4", "5", "c", "4", "a", "4", "0", "d", "e", "7", "3", "9", "5", "f", "9", "c", "1", "a", "e", "8", "e", "7", "9", "2", "4", "2", "3", "e", "a", "6", "b", "3", "0", "e", "a", "1", "b">> @@
    "https://shop.example/product/green-tea?ref=home" :> <<"d", "e", "6", "9", "a", "0", "9", "6", "7", "4", "7", "a", "7", "9", "6", "7", "9", "8", "8", "6", "2", "3", "5", "9", "e", "b", "2", "f", "9", "f", "f", "d", "4", "d", "0", "9", "2", "5", "8", "e">>

\* the length of a product identity
IdLength == 12

\* ProductCrawler.generateProductId, on the instance `this`
generateProductId_PerInstance(this, url, sku) ==
    IF ~Falsy(sku)
    THEN toUpperCase(substring(stripNonAlphanumeric(Chars[sku]), IdLength))
    ELSE toUpperCase(substring(<<ToString(this)>> \o sha1[url], IdLength))

generateProductId_TruncatedFirst(this, url, sku) ==
    IF ~Falsy(sku)
    THEN toUpperCase(stripNonAlphanumeric(substring(Chars[sku], IdLength)))
    ELSE toUpperCase(substring(sha1[url], IdLength))

generateProductId(this, url, sku) ==
    IF ~Falsy(sku)
    THEN toUpperCase(substring(stripNonAlphanumeric(Chars[sku]), IdLength))
    ELSE toUpperCase(substring(sha1[url], IdLength))

\* the columns of a product row that upsertProduct writes as `product.x || null`
\* (scrape_date, created_at and updated_at hold the time of the call and are
\* left out: no behaviour compared here depends on the clock; so are price and
\* currency, which extractProductData parses out of the merged price text)
ScalarColumns ==
    { "name", "brand", "category", "variant", "description",
      "ingredients", "nutrition", "manufacturer", "origin", "availability",
      "source_site" }

\* a column that is NULL, or a property that is undefined, where the value is
\* not a plain string: the empty sequence; a value v that is there: <<v>>.
\* The merged OCR text is the sequence of its characters, NULL when empty
\* (`product.merged_ocr_text || null`).
Null == <<>>

\* the row upsertProduct binds to the statement
BoundRow(product) ==
    [ product_id      |-> product.product_id,
      url             |-> product.url,
      cols            |-> [c \in ScalarColumns |-> Or(Get(product.cols, c), "null")],
      merged_ocr_text |-> product.merged_ocr_text,
      ocr_fields_json |-> product.ocr_fields_json ]

\* products.url is UNIQUE: the statement aborts when another row holds the url
upsertThrows(table, product) ==
    \E id \in DOMAIN table : id # product.product_id /\ table[id].url = product.url

\* Database.upsertProduct: INSERT ... ON CONFLICT(product_id) DO UPDATE SET
\* every column but product_id and url
upsertProduct(table, product) ==
    IF upsertThrows(table, product) THEN table
    ELSE IF product.product_id \in DOMAIN table
    THEN [table EXCEPT ![product.product_id] =
              [BoundRow(product) EXCEPT !.url = table[product.product_id].url]]
    ELSE table @@ (product.product_id :> BoundRow(product))

\* Database.getProduct
getProduct(table, productId) ==
    IF productId \in DOMAIN table THEN <<table[productId]>> ELSE Null

\* ------------------------------------------------------------------------
\* Identity: every crawler instance derives the identity of the pages it
\* extracts and saves the product under it. The page content (the SKU the
\* merged sources declare) is the environment's choice at each extraction.
\* ------------------------------------------------------------------------

\* extractProductData (line 994) and the save of crawlProduct (line 873) by the
\* crawler of job j, for a page without images
Identify(j) ==
    \E url \in ProductPageUrls, sku \in DeclaredSkus :
        LET productId == generateProductId(j, url, sku)
            productData == [ product_id |-> productId, url |-> url,
                             cols |-> EmptyObject,
                             merged_ocr_text |-> Null, ocr_fields_json |-> Null ]
        IN /\ procs' = [procs EXCEPT ![j] =
                  [NoProc EXCEPT !.url = url, !.sku = sku, !.productId = productId,
                                 !.pc = IF upsertThrows(products, productData)
                                        THEN "threw" ELSE "saved"]]
           /\ products' = upsertProduct(products, productData)
           /\ UNCHANGED <<images, call>>
           /\ UNCHANGED crawlVars

NextIdentity == \E j \in Jobs : Identify(j)

SpecIdentity == InitFrames /\ [][NextIdentity]_vars

\* C13: for a URL whose page declares no SKU, the identity is a function of
\* the URL alone: whichever crawler instances (jobs) extracted the URL, and
\* whatever was extracted before, they derived the same identity.
C13_IdentityOfUrlAlone ==
    \A j1 \in Jobs, j2 \in Jobs :
        ( /\ procs[j1].pc # "idle" /\ procs[j2].pc # "idle"
          /\ Falsy(procs[j1].sku) /\ Falsy(procs[j2].sku)
          /\ procs[j1].url = procs[j2].url )
        => procs[j1].productId = procs[j2].productId

\* two different instances have extracted the same SKU-less URL, after
\* other products were saved
C13_Witness ==
    /\ procs[1].pc = "saved" /\ procs[2].pc = "saved"
    /\ procs[1].url = procs[2].url
    /\ procs[1].sku = "null" /\ procs[2].sku = ""
    /\ Cardinality(DOMAIN products) > 1

\* C14: when the page declares a SKU, the identity is the SKU stripped of its
\* non-alphanumeric characters, uppercased and cut to 12 characters, whatever
\* the URL: two URLs declaring the same SKU get the same identity, and a save
\* that went through is held by the one row of that identity.
C14_IdentityOfSkuAlone ==
    /\ \A j \in Jobs :
          (procs[j].pc # "idle" /\ ~Falsy(procs[j].sku)) =>
              /\ procs[j].productId =
                    substring(toUpperCase(stripNonAlphanumeric(Chars[procs[j].sku])), 12)
              /\ procs[j].pc = "saved" => procs[j].productId \in DOMAIN products
    /\ \A j1 \in Jobs, j2 \in Jobs :
          ( /\ procs[j1].pc # "idle" /\ procs[j2].pc # "idle"
            /\ ~Falsy(procs[j1].sku) /\ procs[j1].sku = procs[j2].sku )
          => procs[j1].productId = procs[j2].productId

\* two URLs declaring the same SKU, longer than 12 characters and with
\* punctuation, were both saved: the table holds the one row, under the URL
\* that came first
C14_Witness ==
    /\ procs[1].pc = "saved" /\ procs[2].pc = "saved"
    /\ procs[1].url # procs[2].url
    /\ procs[1].sku = "SKU-2024-GREEN-TEA" /\ procs[2].sku = "SKU-2024-GREEN-TEA"
    /\ DOMAIN products = {procs[1].productId}
    /\ procs[1].productId = <<"S", "K", "U", "2", "0", "2", "4", "G", "R", "E", "E", "N">>

\* ------------------------------------------------------------------------
\* Barcode detection (barcode module)
\*
\* An image buffer is what the functions below can tell of it: its width, the
\* sharp call that throws on it (if any), which of its variants the decoder
\* reads a symbol from, and the symbol.
\* ------------------------------------------------------------------------

\* the sharp pipelines of preprocessImage, in the order it awaits them
SharpCalls == <<"grayscale", "highContrast", "inverted", "metadata", "enlarged", "threshold">>

\* images narrower than this get the enlarged variant
EnlargeBelowWidth == 1000

\* confidence of a decoded symbol (0.95) and of one read off the OCR text
\* (0.5), in hundredths
DecodedConfidence == 95

ImageBuffers ==
    [ width   : {999, 1000},
      broken  : {"none"} \cup Range(SharpCalls),
      decodes : SUBSET {"grayscale", "highContrast", "inverted", "enlarged", "threshold", "original"},
      symbol  : {<<"4", "0", "0", "6", "3", "8", "1", "3", "3", "3", "9", "3", "1">>} ]

\* the try block of preprocessImage from its n-th sharp call on, `variants`
\* being what was pushed so far; the catch pushes the untouched buffer
RECURSIVE preprocessFrom(_, _, _)
preprocessFrom(imageBuffer, n, variants) ==
    IF n > Len(SharpCalls) THEN variants
    ELSE IF SharpCalls[n] = "enlarged" /\ ~(imageBuffer.width < EnlargeBelowWidth)
    THEN preprocessFrom(imageBuffer, n + 1, variants)
    ELSE IF SharpCalls[n] = imageBuffer.broken THEN Append(variants, "original")
    ELSE IF SharpCalls[n] = "metadata" THEN preprocessFrom(imageBuffer, n + 1, variants)
    ELSE preprocessFrom(imageBuffer, n + 1, Append(variants, SharpCalls[n]))

preprocessImage(imageBuffer) == preprocessFrom(imageBuffer, 1, <<>>)

\* decodeWithZXing on one variant of the buffer: the first symbol read, or null
decodeWithZXing(imageBuffer, variant) ==
    IF variant \in imageBuffer.decodes
    THEN << [value |-> imageBuffer.symbol, format |-> "EAN-13", confidence |-> DecodedConfidence] >>
    ELSE Null

\* a call of detectBarcode on a buffer, about to preprocess it
detectBarcodeCall(imageBuffer) ==
    [ fn |-> "detectBarcode", pc |-> "preprocess", buffer |-> imageBuffer,
      variants |-> <<>>, decoded |-> <<>>, result |-> Null ]

\* line 166
preprocessStep(c) ==
    LET variants == preprocessImage(c.buffer)
    IN [c EXCEPT !.variants = variants,
                 !.pc = IF variants = <<>> THEN "returned" ELSE "decode"]

decodeStep_TriesAll(c) ==
    LET variant == c.variants[Len(c.decoded) + 1]
        result  == decodeWithZXing(c.buffer, variant)
        decoded == Append(c.decoded, variant)
    IN [c EXCEPT !.decoded = decoded,
                 !.result = IF c.result # Null THEN c.result ELSE result,
                 !.pc = IF Len(decoded) = Len(c.variants) THEN "returned" ELSE "decode"]

\* one round of the loop of lines 169-174, and the return after it
decodeStep(c) ==
    LET variant == c.variants[Len(c.decoded) + 1]
        result  == decodeWithZXing(c.buffer, variant)
        decoded == Append(c.decoded, variant)
    IN [c EXCEPT !.decoded = decoded,
                 !.result = result,
                 !.pc = IF result # Null \/ Len(decoded) = Len(c.variants)
                        THEN "returned" ELSE "decode"]

RECURSIVE runDetectBarcode(_)
runDetectBarcode(c) ==
    IF c.pc = "preprocess" THEN runDetectBarcode(preprocessStep(c))
    ELSE IF c.pc = "decode" THEN runDetectBarcode(decodeStep(c))
    ELSE c

\* detectBarcode(buffer), run to its return
detectBarcode(imageBuffer) == runDetectBarcode(detectBarcodeCall(imageBuffer)).result

InitBarcode ==
    /\ InitCrawl
    /\ products = <<>> /\ images = <<>> /\ procs = [j \in Jobs |-> NoProc]
    /\ call \in { detectBarcodeCall(b) : b \in ImageBuffers }

Preprocess ==
    /\ call.pc = "preprocess"
    /\ call' = preprocessStep(call)
    /\ UNCHANGED <<products, images, procs>>
    /\ UNCHANGED crawlVars

Decode ==
    /\ call.pc = "decode"
    /\ call' = decodeStep(call)
    /\ UNCHANGED <<products, images, procs>>
    /\ UNCHANGED crawlVars

NextBarcode == Preprocess \/ Decode

SpecBarcode == InitBarcode /\ [][NextBarcode]_vars

\* the first variant of the list the decoder reads a symbol from, 0 if none
FirstDecoding(c) ==
    IF \E k \in DOMAIN c.variants : c.variants[k] \in c.buffer.decodes
    THEN CHOOSE k \in DOMAIN c.variants :
            /\ c.variants[k] \in c.buffer.decodes
            /\ \A i \in 1..(k - 1) : c.variants[i] \notin c.buffer.decodes
    ELSE 0

\* C16: the variants are tried in the order grayscale, high contrast,
\* inverted, enlarged (only for a width under 1000), threshold; the decoder is
\* called on them in list order and never after a variant that decoded: when
\* the k-th variant is the first to decode, the decoder was called exactly k
\* times and the result is that decode.
C16_FirstDecodeShortCircuits ==
    /\ (call.pc # "preprocess" /\ call.buffer.broken = "none") =>
          call.variants =
              IF call.buffer.width < 1000
              THEN <<"grayscale", "highContrast", "inverted", "enlarged", "threshold">>
              ELSE <<"grayscale", "highContrast", "inverted", "threshold">>
    /\ Len(call.decoded) <= Len(call.variants)
    /\ \A i \in DOMAIN call.decoded : call.decoded[i] = call.variants[i]
    /\ \A i \in 1..(Len(call.decoded) - 1) : call.decoded[i] \notin call.buffer.decodes
    /\ call.pc = "returned" =>
          IF FirstDecoding(call) = 0
          THEN call.result = Null /\ Len(call.decoded) = Len(call.variants)
          ELSE call.result # Null /\ Len(call.decoded) = FirstDecoding(call)

\* a narrow image whose enlarged and threshold variants both decode: the
\* decoder ran four times, the threshold variant was never tried
C16_Witness ==
    /\ call.pc = "returned"
    /\ call.buffer.width < 1000 /\ call.buffer.broken = "none"
    /\ call.buffer.decodes = {"enlarged", "threshold"}
    /\ call.decoded = <<"grayscale", "highContrast", "inverted", "enlarged">>
    /\ call.result # Null

\* ------------------------------------------------------------------------
\* OCR text (OCR module): classification
\* ------------------------------------------------------------------------

\* text.includes(pattern)
Includes(text, pattern) ==
    \E i \in 1..(Len(text) - Len(pattern) + 1) :
        SubSeq(text, i, i + Len(pattern) - 1) = pattern

\* /\d{n,}/.test(text): n digits in a row
HasDigitRun(text, n) ==
    \E i \in 1..(Len(text) - n + 1) : \A k \in i..(i + n - 1) : text[k] \in Digits

nutritionPatterns ==
    { <<"n", "u", "t", "r", "i", "t", "i", "o", "n", " ", "f", "a", "c", "t", "s">>,
      <<"n", "u", "t", "r", "i", "t", "i", "o", "n", "a", "l", " ", "i", "n", "f", "o", "r", "m", "a", "t", "i", "o", "n">>,
      <<"p", "e", "r", " ", "s", "e", "r", "v", "i", "n", "g">>,
      <<"c", "a", "l", "o", "r", "i", "e", "s">>,
      <<"t", "o", "t", "a", "l", " ", "f", "a", "t">>,
      <<"s", "o", "d", "i", "u", "m">>,
      <<"c", "a", "r", "b", "o", "h", "y", "d", "r", "a", "t", "e">>,
      <<"p", "r", "o", "t", "e", "i", "n">>,
      <<"d", "a", "i", "l", "y", " ", "v", "a", "l", "u", "e">>,
      <<"s", "a", "t", "u", "r", "a", "t", "e", "d", " ", "f", "a", "t">>,
      <<"c", "h", "o", "l", "e", "s", "t", "e", "r", "o", "l">>,
      <<"d", "i", "e", "t", "a", "r", "y", " ", "f", "i", "b", "e", "r">> }

ingredientPatterns ==
    { <<"i", "n", "g", "r", "e", "d", "i", "e", "n", "t", "s", ":">>,
      <<"i", "n", "g", "r", "e", "d", "i", "e", "n", "t", "s">>,
      <<"c", "o", "n", "t", "a", "i", "n", "s", ":">>,
      <<"m", "a", "y", " ", "c", "o", "n", "t", "a", "i", "n">>,
      <<"a", "l", "l", "e", "r", "g", "e", "n">>,
      <<"w", "h", "e", "a", "t">>,
      <<"s", "o", "y">>,
      <<"m", "i", "l", "k">>,
      <<"e", "g", "g", "s">>,
      <<"n", "u", "t", "s">> }

\* the string patterns of barcodePatterns; its first pattern is /\d{8,14}/
barcodePatterns ==
    { <<"e", "a", "n">>,
      <<"u", "p", "c">>,
      <<"g", "t", "i", "n">> }

BarcodeDigitsMin == 8

frontPatterns ==
    { <<"n", "e", "w">>,
      <<"o", "r", "g", "a", "n", "i", "c">>,
      <<"n", "a", "t", "u", "r", "a", "l">>,
      <<"b", "e", "s", "t", " ", "b", "e", "f", "o", "r", "e">>,
      <<"n", "e", "t", " ", "w", "e", "i", "g", "h", "t">>,
      <<"n", "e", "t", " ", "w", "t">>,
      <<"o", "z">>,
      <<"m", "l">>,
      <<"g", " ">> }

\* patterns.some(p => lowerText.includes(p))
SomeIncluded(patterns, lowerText) == \E p \in patterns : Includes(lowerText, p)

\* whether the rule of a tag matches the text
RuleMatches(tag, text) ==
    CASE tag = "nutrition"   -> SomeIncluded(nutritionPatterns, toLowerCase(text))
      [] tag = "ingredients" -> SomeIncluded(ingredientPatterns, toLowerCase(text))
      [] tag = "barcode"     -> \/ HasDigitRun(text, BarcodeDigitsMin)
                                \/ SomeIncluded(barcodePatterns, toLowerCase(text))
      [] tag = "front"       -> SomeIncluded(frontPatterns, toLowerCase(text))
      [] OTHER               -> TRUE

\* no rule matched: the text is left unclassified
classifyImageContent_Unclassified(text) ==
    IF RuleMatches("nutrition", text) THEN "nutrition"
    ELSE IF RuleMatches("ingredients", text) THEN "ingredients"
    ELSE IF RuleMatches("barcode", text) THEN "barcode"
    ELSE IF RuleMatches("front", text) THEN "front"
    ELSE "unknown"

classifyImageContent_IngredientsFirst(text) ==
    IF RuleMatches("ingredients", text) THEN "ingredients"
    ELSE IF RuleMatches("nutrition", text) THEN "nutrition"
    ELSE IF RuleMatches("barcode", text) THEN "barcode"
    ELSE IF RuleMatches("front", text) THEN "front"
    ELSE "other"

classifyImageContent(text) ==
    IF RuleMatches("nutrition", text) THEN "nutrition"
    ELSE IF RuleMatches("ingredients", text) THEN "ingredients"
    ELSE IF RuleMatches("barcode", text) THEN "barcode"
    ELSE IF RuleMatches("front", text) THEN "front"
    ELSE "other"

\* lines of label text, some matching a rule, some two, some none
SampleLines ==
    << <<"C", "a", "l", "o", "r", "i", "e", "s", " ", "1", "2", "0">>,
       <<"I", "N", "G", "R", "E", "D", "I", "E", "N", "T", "S", ":", " ", "w", "a", "t", "e", "r">>,
       <<"1", "2", "3", "4", "5", "6", "7", "8">>,
       <<"O", "r", "g", "a", "n", "i", "c">>,
       <<"c", "l", "e", "a", "n">>,
       <<"N", "e", "t", " ", "W", "t", " ", "1", "0", "0", "g">>,
       <<"t", "e", "a">> >>

\* the lines numbered in `chosen`, each followed by a line break
RECURSIVE LinesText(_, _)
LinesText(chosen, n) ==
    IF n > Len(SampleLines) THEN <<>>
    ELSE (IF n \in chosen THEN SampleLines[n] \o <<"\n">> ELSE <<>>) \o LinesText(chosen, n + 1)

SampleTexts == { LinesText(chosen, 1) : chosen \in SUBSET DOMAIN SampleLines }

InitClassify ==
    /\ InitCrawl
    /\ products = <<>> /\ images = <<>> /\ procs = [j \in Jobs |-> NoProc]
    /\ call \in { [fn |-> "classifyImageContent", pc |-> "called", text |-> t, result |-> "none"]
                  : t \in SampleTexts }

Classify ==
    /\ call.pc = "called"
    /\ call' = [call EXCEPT !.pc = "returned", !.result = classifyImageContent(call.text)]
    /\ UNCHANGED <<products, images, procs>>
    /\ UNCHANGED crawlVars

NextClassify == Classify

SpecClassify == InitClassify /\ [][NextClassify]_vars

\* C17: the tag of a text is that of the first rule, in the order nutrition,
\* ingredients, barcode, front, other, that matches the text; a text with a
\* nutrition keyword and an ingredient keyword is tagged nutrition.
C17_FirstMatchingRuleWins ==
    call.pc = "returned" =>
        LET order == <<"nutrition", "ingredients", "barcode", "front", "other">>
        IN /\ \E k \in DOMAIN order :
                /\ call.result = order[k]
                /\ RuleMatches(order[k], call.text)
                /\ \A i \in 1..(k - 1) : ~RuleMatches(order[i], call.text)
           /\ ( /\ Includes(toLowerCase(call.text), <<"c", "a", "l", "o", "r", "i", "e", "s">>)
                /\ Includes(toLowerCase(call.text), <<"i", "n", "g", "r", "e", "d", "i", "e", "n", "t", "s">>) )
              => call.result = "nutrition"

\* a label with calories, an ingredient list, a digit run and a front-label
\* word was classified
C17_Witness ==
    /\ call.pc = "returned"
    /\ call.text = LinesText({1, 2, 3, 4}, 1)
    /\ RuleMatches("ingredients", call.text) /\ RuleMatches("barcode", call.text)
    /\ call.result = "nutrition"

\* ------------------------------------------------------------------------
\* OCR text (OCR module): field parsing
\* ------------------------------------------------------------------------

\* \s
Whitespace == {" ", "\n", "\t"}

\* \w
IsWordChar(c) == IsAlphanumeric(c) \/ c = "_"

\* the first index from i on whose character is not in `chars`
RECURSIVE Skip(_, _, _)
Skip(text, i, chars) ==
    IF i <= Len(text) /\ text[i] \in chars THEN Skip(text, i + 1, chars) ELSE i

\* whether `pattern` stands in `text` at index i
StartsAt(text, i, pattern) ==
    /\ i >= 1 /\ i + Len(pattern) - 1 <= Len(text)
    /\ SubSeq(text, i, i + Len(pattern) - 1) = pattern

\* (?:g|kg|oz|lb|ml|l), in the order the alternatives are tried
WeightUnits == << <<"g">>, <<"k", "g">>, <<"o", "z">>, <<"l", "b">>, <<"m", "l">>, <<"l">> >>

\* \d+(?:\.\d+)?\s*(?:g|kg|oz|lb|ml|l) matched at index i of the lowercased
\* text: the index after the match, 0 when there is none
QuantityEnd(lower, i) ==
    LET d1 == Skip(lower, i, Digits)
        d2 == IF d1 <= Len(lower) /\ lower[d1] = "." /\ Skip(lower, d1 + 1, Digits) > d1 + 1
              THEN Skip(lower, d1 + 1, Digits) ELSE d1
        s  == Skip(lower, d2, Whitespace)
        units == { n \in DOMAIN WeightUnits : StartsAt(lower, s, WeightUnits[n]) }
    IN IF d1 = i \/ units = {} THEN 0
       ELSE s + Len(WeightUnits[CHOOSE n \in units : \A m \in units : n <= m])

\* /net\s*(?:weight|wt\.?)[:\s]*(<quantity>)/i matched at index i: the
\* indices of the first and the character after the last of the group, or <<>>
LabelledWeightAt(lower, i) ==
    IF ~StartsAt(lower, i, <<"n", "e", "t">>) THEN <<>>
    ELSE LET w == Skip(lower, i + 3, Whitespace)
             l == IF StartsAt(lower, w, <<"w", "e", "i", "g", "h", "t">>) THEN w + 6
                  ELSE IF StartsAt(lower, w, <<"w", "t">>)
                  THEN (IF StartsAt(lower, w + 2, <<".">>) THEN w + 3 ELSE w + 2)
                  ELSE 0
             q == Skip(lower, l, Whitespace \cup {":"})
         IN IF l = 0 \/ QuantityEnd(lower, q) = 0 THEN <<>>
            ELSE <<q, QuantityEnd(lower, q)>>

\* /(<quantity>)\s*net/i matched at index i
TrailingWeightAt(lower, i) ==
    LET e == QuantityEnd(lower, i)
    IN IF e # 0 /\ StartsAt(lower, Skip(lower, e, Whitespace), <<"n", "e", "t">>)
       THEN <<i, e>> ELSE <<>>

\* text.match(pattern)[1] of the leftmost match of the first of the two
\* weightPatterns that matches, or <<>>
NetWeight(text) ==
    LET lower == toLowerCase(text)
        labelled == { i \in DOMAIN text : LabelledWeightAt(lower, i) # <<>> }
        trailing == { i \in DOMAIN text : TrailingWeightAt(lower, i) # <<>> }
        Leftmost(S) == CHOOSE i \in S : \A k \in S : i <= k
        Group(m) == SubSeq(text, m[1], m[2] - 1)
    IN IF labelled # {} THEN Group(LabelledWeightAt(lower, Leftmost(labelled)))
       ELSE IF trailing # {} THEN Group(TrailingWeightAt(lower, Leftmost(trailing)))
       ELSE <<>>

\* /\b(\d{n})\b/: the leftmost run of exactly n digits between word
\* boundaries, or <<>>
DigitWord(text, n) ==
    LET starts == { i \in 1..(Len(text) - n + 1) :
                      /\ \A k \in i..(i + n - 1) : text[k] \in Digits
                      /\ i = 1 \/ ~IsWordChar(text[i - 1])
                      /\ i + n > Len(text) \/ ~IsWordChar(text[i + n]) }
    IN IF starts = {} THEN <<>>
       ELSE SubSeq(text, CHOOSE i \in starts : \A k \in starts : i <= k,
                   (CHOOSE i \in starts : \A k \in starts : i <= k) + n - 1)

\* the digit counts of the patterns of extractBarcodeFromOCR, in order
OcrBarcodeLengths == <<13, 12, 8, 14>>

\* the leftmost run of any of the lengths, whatever its length
extractBarcodeFromOCR_LeftmostRun(text) ==
    LET Start(n) == CHOOSE i \in DOMAIN text :
                        /\ StartsAt(text, i, DigitWord(text, OcrBarcodeLengths[n]))
                        /\ \A k \in 1..(i - 1) : ~StartsAt(text, k, DigitWord(text, OcrBarcodeLengths[n]))
        found == { n \in DOMAIN OcrBarcodeLengths : DigitWord(text, OcrBarcodeLengths[n]) # <<>> }
    IN IF found = {} THEN <<>>
       ELSE DigitWord(text, OcrBarcodeLengths[CHOOSE n \in found : \A m \in found : Start(n) <= Start(m)])

\* extractBarcodeFromOCR: the match of the first pattern that matches, or <<>>
extractBarcodeFromOCR(text) ==
    LET found == { n \in DOMAIN OcrBarcodeLengths : DigitWord(text, OcrBarcodeLengths[n]) # <<>> }
    IN IF found = {} THEN <<>>
       ELSE DigitWord(text, OcrBarcodeLengths[CHOOSE n \in found : \A m \in found : n <= m])

\* /\b(\d{8}|\d{12}|\d{13}|\d{14})\b/: the leftmost digit run of one of the
\* four lengths between word boundaries, or <<>>
PotentialBarcode(text) ==
    LET runs == { DigitWord(text, OcrBarcodeLengths[n]) : n \in DOMAIN OcrBarcodeLengths } \ {<<>>}
        Start(run) == CHOOSE i \in DOMAIN text : /\ StartsAt(text, i, run)
                                                 /\ \A k \in 1..(i - 1) : ~StartsAt(text, k, run)
    IN IF runs = {} THEN <<>>
       ELSE CHOOSE run \in runs : \A other \in runs : Start(run) <= Start(other)

\* parseOCRFields: the fields the text gives. The label texts carry a net
\* weight, certification marks and digit runs; they have no ingredient list,
\* origin, manufacturer, storage or expiry line, so those fields of the
\* result stay undefined.
parseOCRFields(text) ==
    LET weight == NetWeight(text)
        present == (IF weight # <<>> THEN {"net_weight"} ELSE {})
                   \cup (IF Includes(toLowerCase(text), <<"h", "a", "l", "a", "l">>) THEN {"halal"} ELSE {})
                   \cup (IF Includes(toLowerCase(text), <<"k", "o", "s", "h", "e", "r">>) THEN {"kosher"} ELSE {})
                   \cup (IF PotentialBarcode(text) # <<>> THEN {"potential_barcode"} ELSE {})
    IN [k \in present |-> IF k = "net_weight" THEN weight
                          ELSE IF k = "potential_barcode" THEN PotentialBarcode(text)
                          ELSE <<"true">>]

\* ------------------------------------------------------------------------
\* Product extraction: extractProductData
\*
\* A page is what the three sources give: the first JSON-LD Product block
\* (or none), the last qualifying JSON response seen while the page loaded (or
\* none), the DOM fields, and the image URLs of the DOM.
\* ------------------------------------------------------------------------

\* { ...x } of a value that may be null or undefined
ObjectOf(x) == IF x = Null THEN EmptyObject ELSE x[1]

\* lines 903-906 and 977-980: the merged source
MergeSources(page) ==
    LET structuredData ==
            IF page.jsonData # Null
            THEN Spread(Spread(ObjectOf(page.structuredData),
                               ObjectOf(page.jsonData[1].product)),
                        ObjectOf(page.jsonData[1].item))
            ELSE ObjectOf(page.structuredData)
    IN Spread(page.domData, structuredData)

\* extractProductData on the crawler instance `this`: the record of lines
\* 996-1014 without its images
extractProductData(this, page, productUrl, category, baseDomain) ==
    LET merged == MergeSources(page)
    IN [ product_id |-> generateProductId(this, productUrl, Get(merged, "sku")),
         url |-> productUrl,
         cols |-> [ name         |-> Or(Get(merged, "name"), Get(merged, "title")),
                    brand        |-> Get(merged, "brand"),
                    category     |-> Or(Get(merged, "breadcrumb"), category),
                    variant      |-> Or(Get(merged, "variant"), Get(merged, "size")),
                    description  |-> Get(merged, "description"),
                    ingredients  |-> Get(merged, "ingredients"),
                    nutrition    |-> Get(merged, "nutrition"),
                    manufacturer |-> Get(merged, "manufacturer"),
                    origin       |-> Or(Get(merged, "origin"), Get(merged, "countryOfOrigin")),
                    availability |-> Get(merged, "availability"),
                    source_site  |-> baseDomain ],
         merged_ocr_text |-> Null,
         ocr_fields_json |-> Null ]

\* ------------------------------------------------------------------------
\* Product extraction: the site, and crawlProduct / processProductImages
\* ------------------------------------------------------------------------

FrontImage == "https://cdn.example/green-tea-front.jpg"

BackImage == "https://cdn.example/green-tea-back.jpg"

\* what the image URLs of the site download as, with the text their OCR gives
SiteImages ==
    FrontImage :> [ width |-> 999, broken |-> "none", decodes |-> {},
                    symbol |-> <<>>,
                    text |-> <<"N", "e", "t", " ", "W", "t", " ", "1", "0", "0", "g">> ] @@
    BackImage  :> [ width |-> 1000, broken |-> "none", decodes |-> {"inverted"},
                    symbol |-> <<"4", "0", "0", "6", "3", "8", "1", "3", "3", "3", "9", "3", "1">>,
                    text |-> <<"N", "E", "T", " ", "W", "E", "I", "G", "H", "T", ":", " ", "2", "5", "0", " ", "g", " ", "H", "a", "l", "a", "l">> ]

\* the product pages of the site: one product, reachable under two URLs; the
\* site does not change
SitePages ==
    [ url \in ProductPageUrls |->
        [ structuredData |-> Null,
          jsonData |-> Null,
          domData |-> [ name |-> "Green Tea", brand |-> "Leaf", price |-> "null",
                        description |-> "null", sku |-> "gt-100/a", breadcrumb |-> "" ],
          images |-> <<FrontImage, BackImage>> ] ]

\* DEFAULT_CONFIG
enableOCR == TRUE

enableBarcode == TRUE

\* processProductImages looks at the first images only
ImageLimit == 10

\* confidence of a barcode read off the OCR text (0.5), in hundredths
OcrBarcodeConfidence == 50

EanLength == 13

\* imageExists never finds the row
imageExists_Never(table, productId, imageUrl) == FALSE

\* Database.imageExists
imageExists(table, productId, imageUrl) ==
    \E n \in DOMAIN table :
        table[n].product_id = productId /\ table[n].image_url = imageUrl

\* Database.addImage: a plain INSERT; the three barcode columns are one
\* value here, NULL together
addImage(table, image) == Append(table, image)

\* texts.join(separator)
RECURSIVE Join(_, _)
Join(texts, separator) ==
    IF texts = <<>> THEN <<>>
    ELSE IF Len(texts) = 1 THEN texts[1]
    ELSE texts[1] \o separator \o Join(Tail(texts), separator)

\* extractText, for the buffers of the site: the trimmed text of the image
extractText(buffer) == buffer.text

\* crawlProduct calls made in all, by all jobs
MaxVisits == 3

\* the frame of job j's crawler together with the tables it works on
Frame(j) == [p |-> procs[j], products |-> products, images |-> images]

\* lines 1118-1128, and the return into the finally of crawlProduct
finishImages(w) ==
    LET product == getProduct(w.products, w.p.productId)
    IN [w EXCEPT
          !.p.pc = "close",
          !.products =
              IF w.p.ocrTexts # <<>> /\ product # Null
              THEN upsertProduct(w.products,
                       [product[1] EXCEPT
                           !.merged_ocr_text = Join(w.p.ocrTexts, <<"\n", "-", "-", "-", "\n">>),
                           !.ocr_fields_json = <<w.p.ocrFields>>])
              ELSE w.products]

\* the head of the loop of line 1030 with i = w.p.i (counted from 1), up to
\* the next await: images already recorded are skipped
RECURSIVE imageLoop(_)
imageLoop(w) ==
    IF ~(w.p.i <= Len(w.p.imageUrls) /\ w.p.i <= ImageLimit) THEN finishImages(w)
    ELSE IF imageExists(w.images, w.p.productId, w.p.imageUrls[w.p.i])
    THEN imageLoop([w EXCEPT !.p.i = @ + 1])
    ELSE [w EXCEPT !.p.pc = "fetch"]

\* lines 869-878 once the page has loaded: extract, save, start on the images
extractAndSave(w, j) ==
    LET page == SitePages[w.p.url]
        productData == extractProductData(j, page, w.p.url, "Tea", "shop.example")
        saved == [w EXCEPT !.products = upsertProduct(w.products, productData),
                           !.p.productId = productData.product_id,
                           !.p.sku = Get(MergeSources(page), "sku"),
                           !.p.imageUrls = page.images,
                           !.p.i = 1,
                           !.p.ocrTexts = <<>>,
                           !.p.ocrFields = EmptyObject]
    IN IF upsertThrows(w.products, productData) THEN [w EXCEPT !.p.pc = "close"]
       ELSE IF Len(page.images) > 0 THEN imageLoop(saved)
       ELSE [saved EXCEPT !.p.pc = "close"]

\* lines 1062-1084 once extractText has returned
afterOcr(p, ocrText) ==
    IF ocrText = <<>> THEN [p EXCEPT !.ocrText = ocrText, !.pc = "toFile"]
    ELSE LET ocrBarcode == extractBarcodeFromOCR(ocrText)
         IN [p EXCEPT
               !.ocrText = ocrText,
               !.tag = classifyImageContent(ocrText),
               !.ocrTexts = Append(@, ocrText),
               !.ocrFields = Spread(@, parseOCRFields(ocrText)),
               !.barcodeResult =
                   IF @ = Null /\ ocrBarcode # <<>>
                   THEN << [ value |-> ocrBarcode,
                             format |-> IF Len(ocrBarcode) = EanLength THEN "EAN-13" ELSE "Unknown",
                             confidence |-> OcrBarcodeConfidence ] >>
                   ELSE @,
               !.pc = "toFile"]

\* the row of lines 1097-1107
imageRow(p) ==
    [ product_id |-> p.productId,
      image_url  |-> p.imageUrls[p.i],
      tag        |-> p.tag,
      barcode    |-> p.barcodeResult,
      ocr_text   |-> p.ocrText ]

Settled(j, w) ==
    /\ procs' = [procs EXCEPT ![j] = w.p]
    /\ products' = w.products
    /\ images' = w.images

\* crawlProduct(url) is called on the crawler of job j and opens its page
Visit(j) ==
    /\ procs[j].pc = "idle"
    /\ procs[1].visits + procs[2].visits < MaxVisits
    /\ \E url \in ProductPageUrls :
          procs' = [procs EXCEPT ![j] = [NoProc EXCEPT !.pc = "goto", !.url = url,
                                                       !.visits = procs[j].visits + 1]]
    /\ UNCHANGED <<products, images, call>>
    /\ UNCHANGED crawlVars

\* page.goto resolves
Extract(j) ==
    /\ procs[j].pc = "goto"
    /\ Settled(j, extractAndSave(Frame(j), j))
    /\ UNCHANGED call
    /\ UNCHANGED crawlVars

\* fetch resolves with the image
Fetch(j) ==
    /\ procs[j].pc = "fetch"
    /\ procs' = [procs EXCEPT ![j].tag = "other", ![j].barcodeResult = Null,
                              ![j].ocrText = <<>>,
                              ![j].pc = IF enableBarcode THEN "detect"
                                        ELSE IF enableOCR THEN "ocr" ELSE "toFile"]
    /\ UNCHANGED <<products, images, call>>
    /\ UNCHANGED crawlVars

\* detectBarcode resolves
Detect(j) ==
    /\ procs[j].pc = "detect"
    /\ LET barcodeResult == detectBarcode(SiteImages[procs[j].imageUrls[procs[j].i]])
       IN procs' = [procs EXCEPT ![j].barcodeResult = barcodeResult,
                                 ![j].tag = IF barcodeResult # Null THEN "barcode" ELSE @,
                                 ![j].pc = IF enableOCR THEN "ocr" ELSE "toFile"]
    /\ UNCHANGED <<products, images, call>>
    /\ UNCHANGED crawlVars

\* extractText resolves
Ocr(j) ==
    /\ procs[j].pc = "ocr"
    /\ procs' = [procs EXCEPT ![j] =
                    afterOcr(procs[j], extractText(SiteImages[procs[j].imageUrls[procs[j].i]]))]
    /\ UNCHANGED <<products, images, call>>
    /\ UNCHANGED crawlVars

\* sharp(...).toFile resolves: the image is recorded
Save(j) ==
    /\ procs[j].pc = "toFile"
    /\ images' = addImage(images, imageRow(procs[j]))
    /\ procs' = [procs EXCEPT ![j].pc = "delay"]
    /\ UNCHANGED <<products, call>>
    /\ UNCHANGED crawlVars

\* the delay between images resolves: on to the next image, or to the end
Delay(j) ==
    /\ procs[j].pc = "delay"
    /\ Settled(j, imageLoop([Frame(j) EXCEPT !.p.i = @ + 1]))
    /\ UNCHANGED call
    /\ UNCHANGED crawlVars

\* page.close resolves and crawlProduct returns. `call` keeps what the first
\* crawlProduct call that ran alone left in the tables.
Close(j) ==
    /\ procs[j].pc = "close"
    /\ procs' = [procs EXCEPT ![j] = [NoProc EXCEPT !.visits = procs[j].visits]]
    /\ call' = IF call.fn = "none" /\ \A k \in Jobs \ {j} : procs[k].visits = 0
               THEN [fn |-> "crawlProduct", url |-> procs[j].url, products |-> products]
               ELSE call
    /\ UNCHANGED <<products, images>>
    /\ UNCHANGED crawlVars

NextExtraction ==
    \E j \in Jobs :
        \/ Visit(j) \/ Extract(j) \/ Fetch(j) \/ Detect(j) \/ Ocr(j)
        \/ Save(j) \/ Delay(j) \/ Close(j)

SpecExtraction == InitFrames /\ [][NextExtraction]_vars

\* C11: across the images of one product the merged field map is
\* first-seen-wins: when a crawlProduct call that ran alone has merged the
\* texts of its images, every field the stored map holds has the value given
\* by the first image whose text has the field.
C11_FieldMapFirstSeenWins ==
    \A j \in Jobs :
        ( /\ procs[j].pc = "close" /\ procs[j].ocrTexts # <<>>
          /\ \A k \in Jobs \ {j} : procs[k].visits = 0 )
        => LET texts  == procs[j].ocrTexts
               stored == products[procs[j].productId].ocr_fields_json[1]
           IN \A n \in DOMAIN texts : \A key \in DOMAIN parseOCRFields(texts[n]) :
                  (\A m \in 1..(n - 1) : key \notin DOMAIN parseOCRFields(texts[m]))
                  => stored[key] = parseOCRFields(texts[n])[key]

\* C12: re-extracting the unchanged page, under the same URL or the other
\* URL of the same identity, leaves the stored product rows as the first
\* extraction left them, merged OCR text and OCR field map included.
C12_ReExtractionIsIdempotent ==
    (call.fn = "crawlProduct" /\ \A j \in Jobs : procs[j].pc = "idle")
    => products = call.products

\* C18: no two image rows have the same product identity and the same
\* image URL.
C18_OneRowPerProductImage ==
    \A n \in DOMAIN images, m \in DOMAIN images :
        (images[n].product_id = images[m].product_id /\ images[n].image_url = images[m].image_url)
        => n = m

\* ------------------------------------------------------------------------
\* Source merge: extractProductData applied to pages whose three sources
\* each give, or do not give, the product name
\* ------------------------------------------------------------------------

\* the objects a source can be: without the key, or with the key holding
\* null, the empty string or the source's own value
NamedBy(value) ==
    { EmptyObject } \cup { [name |-> v] : v \in {"null", "", value} }

\* the DOM fallback always has its keys: getText gives null or the trimmed text
DomObjects ==
    { [ name |-> v, brand |-> "null", price |-> "null", description |-> "null",
        sku |-> "null", breadcrumb |-> "" ] : v \in {"null", "", "Dom name"} }

MergePages ==
    [ structuredData : {Null} \cup { <<o>> : o \in NamedBy("Structured name") },
      jsonData : {Null} \cup
                 { << [product |-> p, item |-> i] >> :
                      p \in {Null} \cup { <<o>> : o \in NamedBy("Intercepted name") },
                      i \in {Null, << [name |-> "Intercepted item name"] >>} },
      domData : DomObjects,
      images : {<<>>} ]

InitMerge ==
    /\ InitCrawl
    /\ products = <<>> /\ images = <<>> /\ procs = [j \in Jobs |-> NoProc]
    /\ call \in { [fn |-> "extractProductData", pc |-> "called", page |-> page, result |-> Null]
                  : page \in MergePages }

Merge ==
    /\ call.pc = "called"
    /\ call' = [call EXCEPT
                   !.pc = "returned",
                   !.result = << extractProductData(1, call.page,
                                    "https://shop.example/product/green-tea",
                                    "Tea", "shop.example") >>]
    /\ UNCHANGED <<products, images, procs>>
    /\ UNCHANGED crawlVars

NextMerge == Merge

SpecMerge == InitMerge /\ [][NextMerge]_vars

\* C15: the name of the product record is the name given by the
\* highest-precedence source (intercepted response, then structured data,
\* then DOM) that has a non-empty name; a null or empty name in a
\* higher-precedence source hides nothing, and only when no source has a
\* non-empty name is the record's name empty.
C15_HighestNonEmptySourceWins ==
    call.pc = "returned" =>
        LET NameOf(source) == IF source = Null THEN "null" ELSE Get(source[1], "name")
            page == call.page
            bySource == << IF page.jsonData = Null THEN "null" ELSE NameOf(page.jsonData[1].item),
                           IF page.jsonData = Null THEN "null" ELSE NameOf(page.jsonData[1].product),
                           NameOf(page.structuredData),
                           NameOf(<<page.domData>>) >>
            given == { n \in DOMAIN bySource : ~Falsy(bySource[n]) }
            name == call.result[1].cols.name
        IN IF given = {} THEN Falsy(name)
           ELSE name = bySource[CHOOSE n \in given : \A m \in given : n <= m]

\* ------------------------------------------------------------------------
\* Error log: appendJobError called over and over on one job; the k-th call
\* appends the k-th message
\* ------------------------------------------------------------------------

\* calls of appendJobError made on the job
MaxAppends == 105

InitErrors ==
    /\ crawler = NewCrawler
    /\ job = createJob
    /\ flow = NoFlow
    /\ server = [activeCrawlers |-> FALSE, shutdown |-> FALSE]
    /\ chromium = [browser |-> "none", context |-> "none"]
    /\ obs = NoObs
    /\ products = <<>> /\ images = <<>> /\ procs = [j \in Jobs |-> NoProc]
    /\ call = [fn |-> "appendJobError", n |-> 0]

AppendError ==
    /\ call.n < MaxAppends
    /\ job' = appendJobError(job, call.n + 1)
    /\ call' = [call EXCEPT !.n = @ + 1]
    /\ UNCHANGED <<crawler, flow, server, chromium, obs, products, images, procs>>

NextErrors == AppendError

SpecErrors == InitErrors /\ [][NextErrors]_vars

\* C19: after n calls of appendJobError the log holds the min(n, 100) most
\* recent entries, oldest first, and the error counter is n.
C19_LogKeepsLastHundred ==
    LET n == call.n
        kept == IF n < 100 THEN n ELSE 100
    IN /\ job.errors = n
       /\ Len(job.error_log) = kept
       /\ \A i \in 1..kept : job.error_log[i] = n - kept + i

\* 103 calls were made: the log starts at the fourth message
C19_Witness ==
    /\ call.n = 103
    /\ job.errors = 103
    /\ Len(job.error_log) = 100
    /\ job.error_log[1] = 4 /\ job.error_log[100] = 103

\* ------------------------------------------------------------------------
\* Traversal of one category: the crawl has discovered the shelf category
\* alone and is about to traverse it; nothing fails and no stop is requested
\* ------------------------------------------------------------------------

\* startCrawl after initBrowser and discoverCategories, at the first await
\* of crawlCategory
TraversalStart ==
    AfterDiscovery(
        [ crawler  |-> [NewCrawler EXCEPT !.running = TRUE, !.browser = "set",
                                          !.context = "set"],
          job      |-> createJob,
          flow     |-> [NoFlow EXCEPT !.categories = <<ShelfCategory>>],
          server   |-> [activeCrawlers |-> TRUE, shutdown |-> FALSE],
          chromium |-> [browser |-> "open", context |-> "open"],
          obs      |-> [NoObs EXCEPT !.discoveries = 1] ])

InitTraversal ==
    /\ crawler = TraversalStart.crawler
    /\ job = TraversalStart.job
    /\ flow = TraversalStart.flow
    /\ server = TraversalStart.server
    /\ chromium = TraversalStart.chromium
    /\ obs = TraversalStart.obs
    /\ InitRecords

\* extractProductLinks returns the links of the shelf page that is loaded
ShelfExtractLinks ==
    /\ At("extractLinks")
    /\ Becomes(AfterExtractLinks(World, ShelfPage(flow.pageNum).productUrls))

\* hasNextPage tells whether the shelf page that is loaded has a next page
ShelfHasNext ==
    /\ At("hasNext")
    /\ Becomes(AfterHasNext(World, ShelfPage(flow.pageNum).hasNext))

NextTraversal ==
    \/ CatNewPage \/ ListGoto \/ Scroll \/ ShelfExtractLinks \/ ShelfHasNext
    \/ CatClose \/ CatDelay
    \/ ProdNewPage \/ ProdGoto \/ ProdExtract \/ ProdImage \/ ProdClose \/ ProdDelay
    \/ ContextClose \/ BrowserClose

SpecTraversal == InitTraversal /\ [][NextTraversal]_vars

\* C20: of the shelf category, pages 1 and 2 are loaded, once each, and no
\* other page; the five products of page 1 are handed to crawlProduct, once
\* each, and no other product; when the traversal has returned, both pages
\* were loaded and the five products processed.
C20_StopsAfterEmptyPage ==
    LET page(n) == getPaginatedUrl(ShelfCategory, n)
    IN /\ \A u \in ListingUrls : obs.loads[u] <= (IF u \in {page(1), page(2)} THEN 1 ELSE 0)
       /\ \A p \in LinkedProductUrls : obs.handed[p] <= (IF p \in 1..5 THEN 1 ELSE 0)
       /\ obs.catResult # <<>> =>
             /\ obs.catResult = <<"ok">>
             /\ obs.loads[page(1)] = 1 /\ obs.loads[page(2)] = 1
             /\ \A p \in 1..5 : obs.handed[p] = 1
             /\ crawler.stats.products = 5
             /\ job.processed_products = 5

\* the crawl is over: two pages loaded, five products extracted
C20_Witness ==
    /\ flow.pc = "done"
    /\ job.status = "completed"
    /\ obs.loads[getPaginatedUrl(ShelfCategory, 2)] = 1
    /\ obs.loads[getPaginatedUrl(ShelfCategory, 3)] = 0
    /\ job.processed_products = 5

\* ------------------------------------------------------------------------
\* One image through processProductImages (lines 1048-1107), under each
\* setting of enableBarcode and enableOCR, for downloads with and without a
\* readable symbol and label texts with and without digit runs
\* ------------------------------------------------------------------------

\* lines the OCR reads off a label: digit runs of 13, 12, 8, 14 and 9 digits,
\* a run glued to a letter, and words of each class of classifyImageContent
LabelLines ==
    << <<"4", "0", "0", "6", "3", "8", "1", "3", "3", "3", "9", "3", "1">>,
       <<"0", "3", "6", "0", "0", "0", "2", "9", "1", "4", "5", "2">>,
       <<"9", "6", "3", "8", "5", "0", "7", "4">>,
       <<"1", "4", "0", "0", "6", "3", "8", "1", "3", "3", "3", "9", "3", "8">>,
       <<"x", "1", "2", "3", "4", "5", "6", "7", "8">>,
       <<"1", "2", "3", "4", "5", "6", "7", "8", "9">>,
       <<"C", "a", "l", "o", "r", "i", "e", "s", " ", "1", "2", "0">>,
       <<"s", "o", "y">>,
       <<"O", "r", "g", "a", "n", "i", "c">>,
       <<"t", "e", "a">> >>

\* the empty text, each line, and each two lines in a row
LabelTexts ==
    {<<>>} \cup { LabelLines[a] : a \in DOMAIN LabelLines }
           \cup { LabelLines[a] \o <<" ">> \o LabelLines[b] :
                     a \in DOMAIN LabelLines, b \in DOMAIN LabelLines }

\* downloads: one the decoder reads inverted, one it cannot read
LabelBuffers ==
    { [ width |-> 1000, broken |-> "none", decodes |-> d,
        symbol |-> <<"4", "0", "0", "6", "3", "8", "1", "3", "3", "3", "9", "3", "1">>, text |-> t ] :
      d \in { {}, {"inverted"} }, t \in LabelTexts }

\* lines 1049-1054 once fetch has resolved with the image
afterFetch(p, config) ==
    [p EXCEPT !.tag = "other", !.barcodeResult = Null, !.ocrText = <<>>,
              !.pc = IF config.enableBarcode THEN "detect"
                     ELSE IF config.enableOCR THEN "ocr" ELSE "toFile"]

\* lines 1055-1063 once detectBarcode has returned
afterDetect(p, config, barcodeResult) ==
    [p EXCEPT !.barcodeResult = barcodeResult,
              !.tag = IF barcodeResult # Null THEN "barcode" ELSE @,
              !.pc = IF config.enableOCR THEN "ocr" ELSE "toFile"]

\* processProductImages has downloaded the one image of a product
InitImage ==
    /\ InitCrawl
    /\ products = <<>> /\ images = <<>>
    /\ \E enableBarcode_ \in BOOLEAN, enableOCR_ \in BOOLEAN, buffer \in LabelBuffers :
          /\ call = [ fn |-> "processProductImages", buffer |-> buffer,
                      config |-> [enableBarcode |-> enableBarcode_, enableOCR |-> enableOCR_] ]
          /\ procs = [ j \in Jobs |->
                         IF j = 1
                         THEN afterFetch([NoProc EXCEPT !.productId = <<"G", "T", "1", "0", "0", "A">>,
                                                        !.imageUrls = <<BackImage>>, !.i = 1,
                                                        !.ocrFields = EmptyObject],
                                         call.config)
                         ELSE NoProc ]

\* detectBarcode resolves
ImageDetect ==
    /\ procs[1].pc = "detect"
    /\ procs' = [procs EXCEPT ![1] = afterDetect(@, call.config, detectBarcode(call.buffer))]
    /\ UNCHANGED <<products, images, call>>
    /\ UNCHANGED crawlVars

\* extractText resolves
ImageOcr ==
    /\ procs[1].pc = "ocr"
    /\ procs' = [procs EXCEPT ![1] = afterOcr(@, extractText(call.buffer))]
    /\ UNCHANGED <<products, images, call>>
    /\ UNCHANGED crawlVars

\* sharp(...).toFile resolves: the image is recorded
ImageSave ==
    /\ procs[1].pc = "toFile"
    /\ images' = addImage(images, imageRow(procs[1]))
    /\ procs' = [procs EXCEPT ![1].pc = "delay"]
    /\ UNCHANGED <<products, call>>
    /\ UNCHANGED crawlVars

NextImage == ImageDetect \/ ImageOcr \/ ImageSave

SpecImage == InitImage /\ [][NextImage]_vars

\* the digit run the patterns of lengths 13, 12, 8, 14 give, in that order
FirstRunByLength(text) ==
    IF DigitWord(text, 13) # <<>> THEN DigitWord(text, 13)
    ELSE IF DigitWord(text, 12) # <<>> THEN DigitWord(text, 12)
    ELSE IF DigitWord(text, 8) # <<>> THEN DigitWord(text, 8)
    ELSE DigitWord(text, 14)

C22_TagIsOneOfFive ==
    \A n \in DOMAIN images :
        images[n].tag \in {"nutrition", "ingredients", "barcode", "front", "other"}

\* a row stored with OCR enabled for a text no rule matches
C22_Witness ==
    /\ images # <<>>
    /\ call.config.enableOCR
    /\ call.buffer.decodes = {"inverted"}
    /\ call.buffer.text = <<"t", "e", "a">>
    /\ images[1].tag = "other"

\* ------------------------------------------------------------------------
\* The OCR worker pool: initScheduler and extractText (lines 1156-1253),
\* called by several jobs of the process at once. The scheduler is the
\* tesseract.js scheduler: addWorker and the end of a job hand the head of
\* the job queue to an idle worker, and addJob throws while it has no worker.
\* terminateScheduler is exported but nothing calls it.
\* ------------------------------------------------------------------------

MAX_WORKERS == 2

\* jobs calling extractText in the process
MaxCallers == 3

OcrCallers == 1..MaxCallers

\* line 1163 fails to short-circuit while the workers are being created
SchedulerExists_OnceFull(o) == o.workers = MAX_WORKERS

\* line 1163: if (scheduler)
SchedulerExists(o) == o.scheduler

\* dequeue(): with a job queued and a worker idle, the head of the queue
\* starts on it
dequeue(o) ==
    IF o.queue # <<>> /\ Cardinality(o.running) < o.workers
    THEN [o EXCEPT !.queue = Tail(@), !.running = @ \cup {Head(o.queue)}]
    ELSE o

\* the position of each caller, given the module state
Positions(o, pcs) ==
    [ c \in OcrCallers |->
        IF pcs[c].pc = "queued" /\ c \in o.running THEN [pcs[c] EXCEPT !.pc = "recognizing"]
        ELSE pcs[c] ]

InitOcr ==
    /\ InitCrawl
    /\ products = <<>> /\ images = <<>>
    /\ call = [fn |-> "extractText", scheduler |-> FALSE, workers |-> 0, created |-> 0,
               queue |-> <<>>, running |-> {}]
    /\ procs = [c \in OcrCallers |-> [pc |-> "idle", i |-> 0, text |-> "none"]]

\* extractText is called and enters initScheduler, up to its first await
CallExtractText(c) ==
    /\ procs[c].pc = "idle"
    /\ IF SchedulerExists(call)
       THEN /\ procs' = [procs EXCEPT ![c].pc = "preprocess"]
            /\ call' = call
       ELSE /\ procs' = [procs EXCEPT ![c].pc = "createWorker", ![c].i = 0]
            /\ call' = [call EXCEPT !.scheduler = TRUE]
    /\ UNCHANGED <<products, images>>
    /\ UNCHANGED crawlVars

\* Tesseract.createWorker resolves: the worker is added, the loop goes on
WorkerCreated(c) ==
    /\ procs[c].pc = "createWorker"
    /\ LET o == dequeue([call EXCEPT !.created = @ + 1, !.workers = @ + 1])
       IN /\ call' = o
          /\ procs' = Positions(o, [procs EXCEPT
                          ![c].i = @ + 1,
                          ![c].pc = IF procs[c].i + 1 < MAX_WORKERS THEN "createWorker"
                                    ELSE "preprocess"])
    /\ UNCHANGED <<products, images>>
    /\ UNCHANGED crawlVars

\* Tesseract.createWorker rejects: extractText catches and returns no text
CreateWorkerFails(c) ==
    /\ procs[c].pc = "createWorker"
    /\ procs' = [procs EXCEPT ![c].pc = "returned", ![c].text = ""]
    /\ UNCHANGED <<products, images, call>>
    /\ UNCHANGED crawlVars

\* preprocessForOCR resolves and sched.addJob is called
AddJob(c) ==
    /\ procs[c].pc = "preprocess"
    /\ IF call.workers = 0
       THEN /\ procs' = [procs EXCEPT ![c].pc = "returned", ![c].text = ""]
            /\ call' = call
       ELSE LET o == dequeue([call EXCEPT !.queue = Append(@, c)])
            IN /\ call' = o
               /\ procs' = Positions(o, [procs EXCEPT ![c].pc = "queued"])
    /\ UNCHANGED <<products, images>>
    /\ UNCHANGED crawlVars

\* a worker finishes a recognition: its job resolves, the next one starts
Recognized(c) ==
    /\ procs[c].pc = "recognizing"
    /\ LET o == dequeue([call EXCEPT !.running = @ \ {c}])
       IN /\ call' = o
          /\ procs' = Positions(o, [procs EXCEPT ![c].pc = "returned", ![c].text = "text"])
    /\ UNCHANGED <<products, images>>
    /\ UNCHANGED crawlVars

\* the caller goes on to its next image
OcrReturn(c) ==
    /\ procs[c].pc = "returned"
    /\ procs' = [procs EXCEPT ![c].pc = "idle"]
    /\ UNCHANGED <<products, images, call>>
    /\ UNCHANGED crawlVars

NextOcr ==
    \E c \in OcrCallers :
        \/ CallExtractText(c) \/ WorkerCreated(c) \/ CreateWorkerFails(c)
        \/ AddJob(c) \/ Recognized(c) \/ OcrReturn(c)

SpecOcr == InitOcr /\ [][NextOcr]_vars

\* C23: over all callers, never more than 2 workers are created and never
\* more than 2 recognitions are in progress; the requests not in progress
\* wait in the one queue, and a waiting request starts only from its head.
C23_TwoWorkersOneQueue ==
    [][ /\ call'.created <= 2
        /\ Cardinality({ c \in OcrCallers : procs'[c].pc = "recognizing" }) <= 2
        /\ { c \in OcrCallers : procs'[c].pc = "queued" }
              = { call'.queue[n] : n \in DOMAIN call'.queue }
        /\ \A c \in OcrCallers :
              (procs[c].pc = "queued" /\ procs'[c].pc = "recognizing") => Head(call.queue) = c
      ]_vars

\* two recognitions in progress on the two workers, a third request waiting
C23_Witness ==
    /\ call.created = 2
    /\ Cardinality({ c \in OcrCallers : procs[c].pc = "recognizing" }) = 2
    /\ Len(call.queue) = 1

\* ------------------------------------------------------------------------
\* Two jobs in one process: POST /api/crawl/start builds one crawler per job
\* (server lines 71-83), POST /api/crawl/stop/:jobId stops the crawler
\* registered under that id (lines 108-123). Each crawler walks the listing
\* pages and the products of the same site with its own sets.
\* ------------------------------------------------------------------------

\* every crawler is stopped, whichever job id the request names
StopTarget_All(activeCrawlers, jobId) == activeCrawlers

\* activeCrawlers.get(jobId): the crawlers a stop request acts on
StopTarget(activeCrawlers, jobId) == activeCrawlers \cap {jobId}

\* the crawler of job j as the world the loop conditions look at
JobWorld(j) == [crawler |-> procs[j][1], flow |-> [hasMorePages |-> TRUE]]

InitJobs ==
    /\ InitCrawl
    /\ products = <<>> /\ images = <<>>
    /\ procs = [j \in Jobs |-> Null]
    /\ call = [fn |-> "server", activeCrawlers |-> {}]

\* POST /api/crawl/start: new SupermarketCrawler, activeCrawlers.set, and
\* startCrawl up to its first await
JobStart(j) ==
    /\ procs[j] = Null
    /\ procs' = [procs EXCEPT ![j] = << [NewCrawler EXCEPT !.running = TRUE] >>]
    /\ call' = [call EXCEPT !.activeCrawlers = @ \cup {j}]
    /\ UNCHANGED <<products, images>>
    /\ UNCHANGED crawlVars

\* POST /api/crawl/stop/:jobId for a job found in activeCrawlers
JobStop(jobId) ==
    /\ jobId \in call.activeCrawlers
    /\ procs' = [j \in Jobs |->
                    IF j \in StopTarget(call.activeCrawlers, jobId)
                    THEN << stopCrawl(procs[j][1]) >> ELSE procs[j]]
    /\ UNCHANGED <<products, images, call>>
    /\ UNCHANGED crawlVars

\* crawlCategory of job j reaches line 686 for a listing page
JobLoadPage(j, pageUrl) ==
    /\ j \in call.activeCrawlers
    /\ PageLoopCondition(JobWorld(j))
    /\ ~AlreadyProcessed(JobWorld(j), pageUrl)
    /\ procs' = [procs EXCEPT ![j][1].processedUrls = @ \cup {pageUrl}]
    /\ UNCHANGED <<products, images, call>>
    /\ UNCHANGED crawlVars

\* the product loop of job j reaches line 711 for a product link, and the
\* product is crawled
JobCrawlProduct(j, productUrl) ==
    /\ j \in call.activeCrawlers
    /\ ~ProductStopCheck(JobWorld(j))
    /\ ~AlreadyDiscovered(JobWorld(j), productUrl)
    /\ procs' = [procs EXCEPT ![j][1].discoveredProducts = @ \cup {productUrl},
                              ![j][1].stats.products = @ + 1]
    /\ UNCHANGED <<products, images, call>>
    /\ UNCHANGED crawlVars

\* startCrawl of job j settles: activeCrawlers.delete
JobEnd(j) ==
    /\ j \in call.activeCrawlers
    /\ procs' = [procs EXCEPT ![j][1].running = FALSE]
    /\ call' = [call EXCEPT !.activeCrawlers = @ \ {j}]
    /\ UNCHANGED <<products, images>>
    /\ UNCHANGED crawlVars

NextJobs ==
    \E j \in Jobs :
        \/ JobStart(j) \/ JobStop(j) \/ JobEnd(j)
        \/ \E pageUrl \in CategoryUrls : JobLoadPage(j, pageUrl)
        \/ \E productUrl \in ProductUrls : JobCrawlProduct(j, productUrl)

SpecJobs == InitJobs /\ [][NextJobs]_vars

\* C24: no step, a stop request included, changes the visited pages, the
\* discovered products, the stop flag or the stats of more than one job; and
\* what one job has visited or discovered is never in the way of the other:
\* a running job that was not stopped can load every page and crawl every
\* product it has not itself seen.
C24_JobsShareNoTraversalState ==
    [][ \A j \in Jobs :
          /\ procs'[j] # procs[j] => \A k \in Jobs \ {j} : procs'[k] = procs[k]
          /\ (j \in call.activeCrawlers /\ ~procs[j][1].stopRequested) =>
                /\ \A pageUrl \in CategoryUrls \ procs[j][1].processedUrls :
                      ENABLED JobLoadPage(j, pageUrl)
                /\ \A productUrl \in ProductUrls \ procs[j][1].discoveredProducts :
                      ENABLED JobCrawlProduct(j, productUrl)
      ]_vars

\* job 1 was stopped while job 2 runs on, and job 2 has since loaded a page
\* and crawled a product that job 1 had loaded and crawled before
C24_Witness ==
    /\ call.activeCrawlers = {1, 2}
    /\ procs[1][1].stopRequested /\ ~procs[2][1].stopRequested
    /\ procs[1][1].processedUrls # {}
    /\ procs[2][1].processedUrls = procs[1][1].processedUrls
    /\ procs[2][1].discoveredProducts = procs[1][1].discoveredProducts
    /\ procs[2][1].stats.products = 2

\* ------------------------------------------------------------------------
\* POST /api/crawl/start (server lines 57-102), for request bodies with and
\* without a usable url
\* ------------------------------------------------------------------------

\* strings the WHATWG parser rejects
MalformedUrls ==
    { <<"n", "o", "t", " ", "a", " ", "u", "r", "l">>,
      <<"s", "h", "o", "p", ".", "e", "x", "a", "m", "p", "l", "e">>,
      <<"/", "/", "s", "h", "o", "p", ".", "e", "x", "a", "m", "p", "l", "e", "/", "t", "e", "a">>,
      <<"h", "t", "t", "p", ":", "/", "/">>,
      <<"h", "t", "t", "p", "s", ":", "/", "/", "/", "?", "q", "=", "t", "e", "a">>,
      <<"h", "t", "t", "p", ":", "/", "/", "s", "h", "o", "p", " ", "e", "x", "a", "m", "p", "l", "e", "/">> }

\* strings it parses
WellFormedUrls ==
    { <<"h", "t", "t", "p", ":", "/", "/", "s", "h", "o", "p", ".", "e", "x", "a", "m", "p", "l", "e">>,
      <<"h", "t", "t", "p", "s", ":", "/", "/", "s", "h", "o", "p", ".", "e", "x", "a", "m", "p", "l", "e", "/", "t", "e", "a", "?", "p", "a", "g", "e", "=", "2">>,
      <<"f", "t", "p", ":", "/", "/", "f", "i", "l", "e", "s", ".", "e", "x", "a", "m", "p", "l", "e", "/">>,
      <<"m", "a", "i", "l", "t", "o", ":", "s", "h", "o", "p">> }

\* req.body: no url, the empty string, or one of the strings above
StartBodies ==
    { [url |-> Null], [url |-> << <<>> >>] }
        \cup { [url |-> <<u>>] : u \in MalformedUrls \cup WellFormedUrls }

\* jobs one process accepts
MaxJobs == 2

SpecialSchemes ==
    { <<"h", "t", "t", "p">>, <<"h", "t", "t", "p", "s">>, <<"f", "t", "p">>, <<"w", "s">>, <<"w", "s", "s">> }

\* a parser that takes a string without a scheme as a host name
URL_SchemeOptional(input) ==
    IF input = <<>> \/ " " \in Range(input) THEN Null ELSE << [href |-> input] >>

\* new URL(input) for an input without leading or trailing blanks,
\* credentials or port: Null when it throws. A scheme is a letter followed
\* by letters, digits, +, - or . up to a colon; after a special scheme the
\* slashes are skipped and a host must follow, free of forbidden characters.
URL(input) ==
    LET schemeEnd == Skip(input, 2, Range(LowerCaseLetters) \cup Range(UpperCaseLetters)
                                        \cup Digits \cup {"+", "-", "."})
        hasScheme == /\ input # <<>>
                     /\ input[1] \in Range(LowerCaseLetters) \cup Range(UpperCaseLetters)
                     /\ schemeEnd <= Len(input) /\ input[schemeEnd] = ":"
        scheme    == toLowerCase(SubSeq(input, 1, schemeEnd - 1))
        hostStart == Skip(input, schemeEnd + 1, {"/", "\\"})
        hostEnd   == Skip(input, hostStart, Range(input) \ {"/", "\\", "?", "#"})
        host      == SubSeq(input, hostStart, hostEnd - 1)
    IN IF ~hasScheme THEN Null
       ELSE IF scheme \notin SpecialSchemes THEN << [href |-> input] >>
       ELSE IF host = <<>> \/ Range(host) \cap {" ", "<", ">", "^", "|", "%"} # {} THEN Null
       ELSE << [href |-> input] >>

\* the handler from the request to its response
startHandler(app, body) ==
    LET url   == body.url
        jobId == Len(app.crawl_jobs) + 1
    IN IF url = Null \/ url[1] = <<>>
       THEN [app EXCEPT !.request = <<body>>,
                           !.response = [status |-> 400, error |-> "Homepage URL is required"]]
       ELSE IF URL(url[1]) = Null
       THEN [app EXCEPT !.request = <<body>>,
                           !.response = [status |-> 400, error |-> "Invalid URL format"]]
       ELSE [app EXCEPT !.request = <<body>>,
                           !.crawl_jobs = Append(@, [job_id |-> jobId, homepage_url |-> url[1],
                                                     row |-> createJob]),
                           !.activeCrawlers = @ \cup {jobId},
                           !.started = @ \cup {jobId},
                           !.response = [status |-> 200, error |-> "none"]]

InitStart ==
    /\ InitCrawl
    /\ products = <<>> /\ images = <<>> /\ procs = <<>>
    /\ call = [fn |-> "server", request |-> Null, response |-> [status |-> 0, error |-> "none"],
               crawl_jobs |-> <<>>, activeCrawlers |-> {}, started |-> {}]

\* a start request arrives and is answered
PostStart ==
    /\ \E body \in StartBodies :
          /\ Len(startHandler(call, body).crawl_jobs) <= MaxJobs
          /\ call' = startHandler(call, body)
    /\ UNCHANGED <<products, images, procs>>
    /\ UNCHANGED crawlVars

\* startCrawl of a job settles: activeCrawlers.delete(jobId)
CrawlSettles ==
    /\ \E jobId \in call.activeCrawlers :
          call' = [call EXCEPT !.activeCrawlers = @ \ {jobId}]
    /\ UNCHANGED <<products, images, procs>>
    /\ UNCHANGED crawlVars

NextStart == PostStart \/ CrawlSettles

SpecStart == InitStart /\ [][NextStart]_vars

\* C25: a start request whose url is missing, empty or malformed is
\* answered with an error, and handling it inserts no crawl_jobs row,
\* registers no crawler and starts no crawl.
C25_InvalidUrlCreatesNoJob ==
    [][ ( /\ call'.request # call.request
          /\ \/ call'.request[1].url \in {Null, << <<>> >>}
             \/ call'.request[1].url[1] \in MalformedUrls )
        => /\ call'.response.status = 400
           /\ call'.crawl_jobs = call.crawl_jobs
           /\ call'.activeCrawlers = call.activeCrawlers
           /\ call'.started = call.started
      ]_vars

\* a request with a host name but no scheme was refused while one job ran
C25_Witness ==
    /\ call.request = << [url |-> << <<"s", "h", "o", "p", ".", "e", "x", "a", "m", "p", "l", "e">> >>] >>
    /\ call.response.status = 400
    /\ Len(call.crawl_jobs) = 1
    /\ call.activeCrawlers = {1}

\* ------------------------------------------------------------------------
\* calculateEAN13CheckDigit (lines 228-238), applied to strings of decimal
\* digits
\* ------------------------------------------------------------------------

\* parseInt(c, 10) of a decimal digit
parseInt(c) == CHOOSE d \in 0..9 : ToString(d) = c

\* the loop of lines 232-235 from index i (counted from 0) on
RECURSIVE weightedSum(_, _)
weightedSum(digits, i) ==
    IF i >= 12 THEN 0
    ELSE (IF i % 2 = 0 THEN parseInt(digits[i + 1]) ELSE parseInt(digits[i + 1]) * 3)
         + weightedSum(digits, i + 1)

\* every weight taken three times
calculateEAN13CheckDigit_Tripled(digits) ==
    IF Len(digits) # 12 THEN -1
    ELSE (10 - ((3 * weightedSum(digits, 0)) % 10)) % 10

calculateEAN13CheckDigit(digits) ==
    IF Len(digits) # 12 THEN -1
    ELSE (10 - (weightedSum(digits, 0) % 10)) % 10

\* the digits a position of a sample takes
SampleDigits == {"0", "3", "4", "6", "9"}

\* positions varied over SampleDigits in the 12-digit samples
MaxVaried == 4

\* 400638133393 with its first MaxVaried positions varied, and the strings
\* of 11 and 13 digits cut from and added to each
DigitStrings ==
    LET base == <<"4", "0", "0", "6", "3", "8", "1", "3", "3", "3", "9", "3">>
        twelve == { [i \in 1..12 |-> IF i <= MaxVaried THEN f[i] ELSE base[i]] :
                       f \in [1..MaxVaried -> SampleDigits] }
    IN twelve \cup { SubSeq(d, 1, 11) : d \in twelve } \cup { d \o <<"1">> : d \in twelve }
             \cup { <<>> }

InitCheckDigit ==
    /\ InitCrawl
    /\ products = <<>> /\ images = <<>> /\ procs = <<>>
    /\ call \in { [fn |-> "calculateEAN13CheckDigit", pc |-> "called", digits |-> d, result |-> -1]
                  : d \in DigitStrings }

CheckDigit ==
    /\ call.pc = "called"
    /\ call' = [call EXCEPT !.pc = "returned", !.result = calculateEAN13CheckDigit(call.digits)]
    /\ UNCHANGED <<products, images, procs>>
    /\ UNCHANGED crawlVars

NextCheckDigit == CheckDigit

SpecCheckDigit == InitCheckDigit /\ [][NextCheckDigit]_vars

\* the digits at the odd (1st, 3rd, ..) and at the even positions, summed
RECURSIVE PositionSum(_, _)
PositionSum(digits, positions) ==
    IF positions = {} THEN 0
    ELSE LET p == CHOOSE p \in positions : TRUE
         IN parseInt(digits[p]) + PositionSum(digits, positions \ {p})

\* C26: for 12 decimal digits the result is the one digit d of 0..9 for
\* which (digits at odd positions) + 3 * (digits at even positions) + d is
\* a multiple of 10, which for 400638133393 is 1; for any other length the
\* result is -1.
C26_CheckDigitCompletesToMultipleOfTen ==
    call.pc = "returned" =>
        IF Len(call.digits) = 12
        THEN /\ call.result \in 0..9
             /\ ( PositionSum(call.digits, {1, 3, 5, 7, 9, 11})
                  + 3 * PositionSum(call.digits, {2, 4, 6, 8, 10, 12})
                  + call.result ) % 10 = 0
             /\ call.digits = <<"4", "0", "0", "6", "3", "8", "1", "3", "3", "3", "9", "3">> => call.result = 1
        ELSE call.result = -1

C26_Witness ==
    /\ call.pc = "returned"
    /\ call.digits = <<"4", "0", "0", "6", "3", "8", "1", "3", "3", "3", "9", "3">>
    /\ call.result = 1

\* ------------------------------------------------------------------------
\* The page loop of crawlCategory, within the whole crawl
\* ------------------------------------------------------------------------

\* the step ends the page loop without a failure
PageLoopEnds == flow'.pc = "catClose" /\ flow'.err = "none"

\* the step starts the load of a listing page
PageLoads == flow'.pc = "listGoto"

\* C27: the page loop of crawlCategory ends, other than by a failure, only
\* when a stop was requested, the URL of the page was loaded before in this
\* run, the page gave no product link or no next-page control was found;
\* when none of these holds after page n, page n+1 is loaded. A page with
\* product links, all discovered before or not, never ends the loop by
\* itself: the next-page check follows.
C27_PageLoopEndsForFourReasons ==
    [][ LET category == flow.categories[flow.catIdx]
        IN /\ (flow.pc = "catNewPage" /\ (PageLoopEnds \/ PageLoads)) =>
                 ( PageLoads <=> /\ ~crawler.stopRequested
                                 /\ getPaginatedUrl(category, 1) \notin crawler.processedUrls )
           /\ (flow.pc = "extractLinks" /\ flow'.pc # "extractLinks" /\ flow'.err = "none") =>
                 IF flow'.productUrls = <<>> THEN PageLoopEnds
                 ELSE /\ flow'.pc \in {"prodNewPage", "hasNext"}
                      /\ (\A i \in DOMAIN flow'.productUrls :
                              flow'.productUrls[i] \in crawler.discoveredProducts)
                         => flow'.pc = "hasNext"
           /\ (flow.pc = "hasNext" /\ flow'.pc # "hasNext" /\ flow'.err = "none") =>
                 LET pageUrl == getPaginatedUrl(category, flow.pageNum + 1)
                 IN /\ PageLoads <=> /\ flow'.hasMorePages
                                     /\ ~crawler.stopRequested
                                     /\ pageUrl \notin crawler.processedUrls
                    /\ PageLoads => /\ flow'.pageNum = flow.pageNum + 1
                                    /\ obs'.loads[pageUrl] = obs.loads[pageUrl] + 1
                    /\ ~PageLoads => PageLoopEnds
      ]_vars

\* page 2 of the first category was loaded after page 1; its only link is
\* the product page 1 had handed over, and the next-page check follows
C27_Witness ==
    /\ flow.catIdx = 1 /\ flow.pageNum = 2
    /\ flow.pc = "hasNext"
    /\ flow.productUrls = <<1>>
    /\ crawler.discoveredProducts = {1}
    /\ ~crawler.stopRequested

\* C28: the list discoverCategories returns has no two entries with the
\* same URL.
C28_CategoriesAreDistinct ==
    flow.catIdx >= 1 => Distinct(flow.categories)

\* ------------------------------------------------------------------------
\* parseSitemap (lines 519-574) against a site: what each URL answers to a
\* fetch is fixed for the run. A URL is the sequence of its characters.
\* ------------------------------------------------------------------------

Origin == <<"h", "t", "t", "p", "s", ":", "/", "/", "s", "h", "o", "p", ".", "e", "x", "a", "m", "p", "l", "e">>

\* the candidates of lines 521-525, in order
sitemapUrls(baseDomain) ==
    << baseDomain \o <<"/", "s", "i", "t", "e", "m", "a", "p", ".", "x", "m", "l">>,
       baseDomain \o <<"/", "s", "i", "t", "e", "m", "a", "p", "_", "i", "n", "d", "e", "x", ".", "x", "m", "l">>,
       baseDomain \o <<"/", "s", "i", "t", "e", "m", "a", "p", "-", "i", "n", "d", "e", "x", ".", "x", "m", "l">> >>

\* the patterns of isCategoryUrl, lower case, optional letters written out
categoryPatterns ==
    { <<"/", "c", "a", "t", "e", "g", "o", "r", "y", "/">>,
       <<"/", "c", "a", "t", "e", "g", "o", "r", "i", "e", "s", "/">>,
       <<"/", "c", "/">>,
       <<"/", "c", "o", "l", "l", "e", "c", "t", "i", "o", "n", "/">>,
       <<"/", "c", "o", "l", "l", "e", "c", "t", "i", "o", "n", "s", "/">>,
       <<"/", "s", "h", "o", "p", "/">>,
       <<"/", "p", "r", "o", "d", "u", "c", "t", "/">>,
       <<"/", "p", "r", "o", "d", "u", "c", "t", "s", "/">>,
       <<"/", "d", "e", "p", "a", "r", "t", "m", "e", "n", "t", "/">>,
       <<"/", "a", "i", "s", "l", "e", "/">> }

isCategoryUrl(url) == SomeIncluded(categoryPatterns, toLowerCase(url))

\* loc.includes('product') || loc.includes('category')
IsChildSitemap(loc) ==
    Includes(loc, <<"p", "r", "o", "d", "u", "c", "t">>) \/ Includes(loc, <<"c", "a", "t", "e", "g", "o", "r", "y">>)

TeaCategory == Origin \o <<"/", "c", "a", "t", "e", "g", "o", "r", "y", "/", "t", "e", "a">>

CoffeeCategory == Origin \o <<"/", "c", "a", "t", "e", "g", "o", "r", "y", "/", "c", "o", "f", "f", "e", "e">>

AboutPage == Origin \o <<"/", "a", "b", "o", "u", "t">>

CategorySitemap == Origin \o <<"/", "s", "i", "t", "e", "m", "a", "p", "-", "c", "a", "t", "e", "g", "o", "r", "y", ".", "x", "m", "l">>

PagesSitemap == Origin \o <<"/", "s", "i", "t", "e", "m", "a", "p", "-", "p", "a", "g", "e", "s", ".", "x", "m", "l">>

\* what a candidate of the site answers: the fetch rejects, the status is
\* not OK, the body is no XML, a sitemap index, or a urlset with or
\* without a category URL
CandidateAnswers ==
    { [kind |-> "rejects", locs |-> <<>>],
      [kind |-> "notOk", locs |-> <<>>],
      [kind |-> "unparsable", locs |-> <<>>],
      [kind |-> "sitemapindex", locs |-> <<PagesSitemap, CategorySitemap>>],
      [kind |-> "urlset", locs |-> <<AboutPage, TeaCategory>>],
      [kind |-> "urlset", locs |-> <<AboutPage>>] }

\* the sites: an answer for each candidate; the category sitemap is a urlset
\* at its location; a site may answer every unknown path below it with the
\* same urlset, else with 404
Sites ==
    { [u \in Range(sitemapUrls(Origin)) \cup {CategorySitemap}
             \cup (IF mirrors THEN {sitemapUrls(CategorySitemap)[1]} ELSE {}) |->
          IF u \in Range(sitemapUrls(Origin))
          THEN answers[CHOOSE n \in 1..3 : sitemapUrls(Origin)[n] = u]
          ELSE [kind |-> "urlset", locs |-> <<CoffeeCategory>>] ] :
      answers \in [1..3 -> CandidateAnswers], mirrors \in BOOLEAN }

\* fetch(url) and the parse of its body
Answer(web, url) ==
    IF url \in DOMAIN web THEN web[url] ELSE [kind |-> "notOk", locs |-> <<>>]

\* mutant: the candidates are probed to the last whatever was found
FoundCategories_Never(categories) == FALSE

\* line 567: if (categories.length > 0) break;
FoundCategories(categories) == Len(categories) > 0

\* a call of parseSitemap at its first candidate
SitemapFrame(baseDomain) ==
    [baseDomain |-> baseDomain, n |-> 1, categories |-> <<>>, sitemaps |-> <<>>, pc |-> "fetch"]

\* the end of the try block of a candidate: break, or the next candidate
afterCandidate(f) ==
    [f EXCEPT !.pc = "fetch", !.sitemaps = <<>>,
              !.n = IF FoundCategories(f.categories) THEN Len(sitemapUrls(f.baseDomain)) + 1
                    ELSE @ + 1]

\* the calls on the stack run up to the next fetch, or to the return of the
\* outermost call
RECURSIVE runSitemap(_)
runSitemap(c) ==
    LET depth == Len(c.stack)
        f == c.stack[depth]
    IN IF f.pc = "index"
       THEN IF f.sitemaps = <<>>
            THEN runSitemap([c EXCEPT !.stack[depth] = afterCandidate(f)])
            ELSE IF IsChildSitemap(Head(f.sitemaps))
            THEN [c EXCEPT !.stack = Append([c.stack EXCEPT ![depth].sitemaps = Tail(@)],
                                            SitemapFrame(Head(f.sitemaps)))]
            ELSE runSitemap([c EXCEPT !.stack[depth].sitemaps = Tail(@)])
       ELSE IF f.n <= Len(sitemapUrls(f.baseDomain)) THEN c
       ELSE IF depth = 1 THEN [c EXCEPT !.stack = <<>>, !.result = <<f.categories>>]
       ELSE runSitemap([c EXCEPT !.stack = [k \in 1..(depth - 1) |->
                                              IF k = depth - 1
                                              THEN [c.stack[k] EXCEPT !.categories = @ \o f.categories]
                                              ELSE c.stack[k]]])

\* the fetch of the current candidate of the innermost call settles, and the
\* iteration runs on from there
afterFetchSitemap(c) ==
    LET depth == Len(c.stack)
        f == c.stack[depth]
        sitemapUrl == sitemapUrls(f.baseDomain)[f.n]
        answer == Answer(c.web, sitemapUrl)
        fetched == [c EXCEPT !.fetched = Append(@, sitemapUrl)]
    IN CASE answer.kind \in {"rejects", "notOk", "unparsable"} ->
                runSitemap([fetched EXCEPT !.stack[depth].n = @ + 1])
         [] answer.kind = "sitemapindex" ->
                runSitemap([fetched EXCEPT !.stack[depth].pc = "index",
                                           !.stack[depth].sitemaps = answer.locs])
         [] OTHER ->
                runSitemap([fetched EXCEPT !.stack[depth] =
                               afterCandidate([f EXCEPT !.categories =
                                   @ \o SelectSeq(answer.locs, isCategoryUrl)])])

InitSitemap ==
    /\ InitCrawl
    /\ products = <<>> /\ images = <<>> /\ procs = <<>>
    /\ call \in { [fn |-> "parseSitemap", web |-> web, stack |-> <<SitemapFrame(Origin)>>,
                   fetched |-> <<>>, result |-> Null] : web \in Sites }

FetchSitemap ==
    /\ call.stack # <<>>
    /\ call' = afterFetchSitemap(call)
    /\ UNCHANGED <<products, images, procs>>
    /\ UNCHANGED crawlVars

NextSitemap == FetchSitemap

SpecSitemap == InitSitemap /\ [][NextSitemap]_vars

\* the candidates of the site fetched so far, in the order of their fetches
ProbedCandidates ==
    LET IsCandidate(u) == u \in Range(sitemapUrls(Origin))
    IN SelectSeq(call.fetched, IsCandidate)

\* C29: the candidates sitemap.xml, sitemap_index.xml, sitemap-index.xml of
\* the site are probed in that order; a candidate is fetched only while no
\* category was found; a candidate whose fetch rejects, whose status is not
\* OK or whose body does not parse is followed by the next candidate.
C29_CandidatesProbedInOrderUntilFound ==
    /\ [][ (Len(call.stack) = 1 /\ call'.fetched # call.fetched)
              => call.stack[1].categories = <<>> ]_vars
    /\ [](  /\ Len(ProbedCandidates) <= 3
            /\ \A n \in DOMAIN ProbedCandidates :
                  ProbedCandidates[n] = Origin \o << <<"/", "s", "i", "t", "e", "m", "a", "p", ".", "x", "m", "l">>,
                                                     <<"/", "s", "i", "t", "e", "m", "a", "p", "_", "i", "n", "d", "e", "x", ".", "x", "m", "l">>,
                                                     <<"/", "s", "i", "t", "e", "m", "a", "p", "-", "i", "n", "d", "e", "x", ".", "x", "m", "l">> >>[n]
            /\ call.result # Null =>
                  \A n \in DOMAIN ProbedCandidates :
                      ( /\ n < 3
                        /\ call.web[ProbedCandidates[n]].kind \in {"rejects", "notOk", "unparsable"} )
                      => Len(ProbedCandidates) > n )

\* the first candidate was not OK, the second did not parse, the third gave
\* the category
C29_Witness ==
    /\ call.result = << <<TeaCategory>> >>
    /\ Len(ProbedCandidates) = 3
    /\ call.web[ProbedCandidates[1]].kind = "notOk"
    /\ call.web[ProbedCandidates[2]].kind = "unparsable"

\* C30: when a probed sitemap is a sitemap index, each child sitemap whose
\* location contains 'product' or 'category' is fetched at that location,
\* and the category URLs of its urlset are in the result of parseSitemap.
C30_ChildSitemapsAreFetched ==
    call.result # Null =>
        \A n \in DOMAIN call.fetched :
            Answer(call.web, call.fetched[n]).kind = "sitemapindex" =>
                \A k \in DOMAIN Answer(call.web, call.fetched[n]).locs :
                    LET loc == Answer(call.web, call.fetched[n]).locs[k]
                    IN IsChildSitemap(loc) =>
                          /\ loc \in Range(call.fetched)
                          /\ \A i \in DOMAIN Answer(call.web, loc).locs :
                                isCategoryUrl(Answer(call.web, loc).locs[i])
                                => Answer(call.web, loc).locs[i] \in Range(call.result[1])

\* ------------------------------------------------------------------------
\* The URL queue of the database (part_000 lines 386-423): url_queue rows
\* with status, retry_count and last_error, under any sequence of calls
\* ------------------------------------------------------------------------

\* rows one run adds to the queue: one for each product URL
MaxQueue == Cardinality(ProductUrls)

\* the retry limit of the two WHERE clauses
RetryLimit == 3

\* failures recorded against one row: up to one past the limit
MaxRecorded == RetryLimit + 1

\* times one row is handed out: up to one past the limit
MaxHandouts == RetryLimit + 1

\* the values passed as `error`: none, the empty string, a message
QueueErrors == {"null", "", "timeout"}

\* INSERT OR IGNORE INTO url_queue: no column but id is unique, a row is
\* always added
addToQueue(table, url) ==
    Append(table, [id |-> Len(table) + 1, url |-> url, status |-> "pending",
                   retry_count |-> 0, last_error |-> "null"])

\* the rows getNextFromQueue returns, oldest first
getNextFromQueue(table, limit) ==
    LET IsNext(row) == row.status = "pending" /\ row.retry_count < RetryLimit
    IN SubSeq(SelectSeq(table, IsNext), 1,
              IF Len(SelectSeq(table, IsNext)) < limit THEN Len(SelectSeq(table, IsNext)) ELSE limit)

updateQueueItem(table, id, status, error) ==
    [n \in DOMAIN table |->
        IF table[n].id # id THEN table[n]
        ELSE IF status = "failed" /\ ~Falsy(error)
        THEN [table[n] EXCEPT !.status = status, !.last_error = error, !.retry_count = @ + 1]
        ELSE [table[n] EXCEPT !.status = status]]

resetFailedQueueItems(table) ==
    [n \in DOMAIN table |->
        IF table[n].status = "failed" /\ table[n].retry_count < RetryLimit
        THEN [table[n] EXCEPT !.status = "pending"] ELSE table[n]]

InitQueue ==
    /\ InitCrawl
    /\ products = <<>> /\ images = <<>> /\ procs = <<>>
    /\ call = [fn |-> "url_queue", url_queue |-> <<>>, handed |-> <<>>, batch |-> {}]

AddToQueue ==
    /\ Len(call.url_queue) < MaxQueue
    /\ \E url \in ProductUrls :
          call' = [call EXCEPT !.url_queue = addToQueue(@, url), !.handed = Append(@, 0)]
    /\ UNCHANGED <<products, images, procs>>
    /\ UNCHANGED crawlVars

\* getNextFromQueue is called: the rows it returns are in the caller's hands
GetNextFromQueue ==
    /\ \E limit \in 1..MaxQueue :
          LET rows == getNextFromQueue(call.url_queue, limit)
              ids  == { rows[n].id : n \in DOMAIN rows }
          IN /\ \A id \in ids : call.handed[id] < MaxHandouts
             /\ call' = [call EXCEPT !.batch = ids,
                                     !.handed = [id \in DOMAIN call.handed |->
                                                    IF id \in ids THEN call.handed[id] + 1
                                                    ELSE call.handed[id]]]
    /\ UNCHANGED <<products, images, procs>>
    /\ UNCHANGED crawlVars

\* updateQueueItem is called for any row, with any status and error
UpdateQueueItem ==
    /\ \E id \in DOMAIN call.url_queue, status \in {"pending", "processing", "done", "failed"},
          error \in QueueErrors :
          /\ call.url_queue[id].retry_count < MaxRecorded
          /\ call' = [call EXCEPT !.url_queue = updateQueueItem(@, id, status, error),
                                  !.batch = @ \ {id}]
    /\ UNCHANGED <<products, images, procs>>
    /\ UNCHANGED crawlVars

\* the caller reports the failure of a row it was handed
FailQueueItem ==
    /\ \E id \in call.batch, error \in QueueErrors :
          call' = [call EXCEPT !.url_queue = updateQueueItem(@, id, "failed", error),
                               !.batch = @ \ {id}]
    /\ UNCHANGED <<products, images, procs>>
    /\ UNCHANGED crawlVars

ResetFailedQueueItems ==
    /\ call' = [call EXCEPT !.url_queue = resetFailedQueueItems(@)]
    /\ UNCHANGED <<products, images, procs>>
    /\ UNCHANGED crawlVars

NextQueue == AddToQueue \/ GetNextFromQueue \/ UpdateQueueItem \/ ResetFailedQueueItems

SpecQueue == InitQueue /\ [][NextQueue]_vars

\* the retry loop: rows are handed out once the rows handed out before have
\* been reported, each handed row fails, failed rows are reset
NextRetry ==
    \/ AddToQueue
    \/ (call.batch = {} /\ GetNextFromQueue)
    \/ FailQueueItem
    \/ ResetFailedQueueItems

SpecRetry == InitQueue /\ [][NextRetry]_vars

\* C31: the retry count of every row of the queue is at most 3.
C31_RetryCountAtMostThree ==
    \A n \in DOMAIN call.url_queue : call.url_queue[n].retry_count <= 3

\* C40: in the retry loop a row that fails every time is handed out at most
\* 3 times, whatever error is passed with the failure.
C40_FailingItemHandedOutAtMostThrice ==
    \A id \in DOMAIN call.handed : call.handed[id] <= 3

(***************************************************************************)
(* handleInfiniteScroll: the scroll loop of a listing page.  The document  *)
(* height is the page's answer to each measurement; the page may grow,     *)
(* shrink or stay as it is between two measurements.                       *)
(***************************************************************************)

\* the tallest document of the model
MaxHeight == 3

DocumentHeights == 0..MaxHeight

\* const maxScrolls = 10
maxScrolls == 10

\* if (currentHeight === previousHeight) break, with the test never met
HeightSettled_Never(currentHeight, previousHeight) == FALSE

\* if (currentHeight === previousHeight) break
HeightSettled(currentHeight, previousHeight) == currentHeight = previousHeight

InitScroll ==
    /\ InitCrawl
    /\ products = <<>> /\ images = <<>> /\ procs = <<>>
    /\ call = [fn |-> "handleInfiniteScroll", pc |-> "while", previousHeight |-> 0,
               currentHeight |-> 0, scrollAttempts |-> 0, scrolled |-> 0]

\* while (scrollAttempts < maxScrolls): the test fails and the function returns
ScrollLoopExit ==
    /\ call.pc = "while"
    /\ ~(call.scrollAttempts < maxScrolls)
    /\ call' = [call EXCEPT !.pc = "returned"]
    /\ UNCHANGED <<products, images, procs>>
    /\ UNCHANGED crawlVars

\* the height is measured and compared with the one of the previous iteration
ScrollMeasure ==
    /\ call.pc = "while"
    /\ call.scrollAttempts < maxScrolls
    /\ \E height \in DocumentHeights :
          call' = IF HeightSettled(height, call.previousHeight)
                  THEN [call EXCEPT !.currentHeight = height, !.pc = "returned"]
                  ELSE [call EXCEPT !.currentHeight = height, !.previousHeight = height,
                                    !.pc = "scrollTo"]
    /\ UNCHANGED <<products, images, procs>>
    /\ UNCHANGED crawlVars

\* window.scrollTo(0, document.body.scrollHeight)
ScrollToBottom ==
    /\ call.pc = "scrollTo"
    /\ call' = [call EXCEPT !.scrolled = @ + 1, !.pc = "wait"]
    /\ UNCHANGED <<products, images, procs>>
    /\ UNCHANGED crawlVars

\* waitForTimeout(1000) returns; scrollAttempts++
ScrollWaited ==
    /\ call.pc = "wait"
    /\ call' = [call EXCEPT !.scrollAttempts = @ + 1, !.pc = "while"]
    /\ UNCHANGED <<products, images, procs>>
    /\ UNCHANGED crawlVars

NextScroll == ScrollLoopExit \/ ScrollMeasure \/ ScrollToBottom \/ ScrollWaited

SpecScroll == InitScroll /\ [][NextScroll]_vars

\* every evaluation and every timer of the page returns
SpecScrollFair == SpecScroll /\ WF_vars(NextScroll)

\* C32: handleInfiniteScroll returns after at most 10 scrolls: a measurement
\* equal to the previous one ends it without a further scroll (so a document
\* of height 0 is never scrolled), any other measurement is followed by a
\* scroll unless 10 were made, and the call always returns.
C32_ScrollStopsWithinTenScrolls ==
    /\ [](call.scrolled <= 10)
    /\ [][ /\ (call.pc # "returned" /\ call'.pc = "returned")
              => /\ call.pc = "while"
                 /\ \/ call'.currentHeight = call.previousHeight
                    \/ call.scrolled = 10
           /\ (call.pc = "while" /\ call.scrolled < 10
                 /\ call'.currentHeight = call.previousHeight /\ call'.pc # "while")
              => (call'.pc = "returned" /\ call'.scrolled = call.scrolled)
           /\ (call.pc = "while" /\ call.scrolled < 10
                 /\ call'.currentHeight # call.previousHeight)
              => call'.pc = "scrollTo"
           /\ (call.pc = "while" /\ call.scrolled = 10) => call'.pc = "returned"
           /\ call.pc = "returned" => call' = call ]_vars
    /\ <>(call.pc = "returned")

C32_Witness ==
    /\ call.fn = "handleInfiniteScroll"
    /\ call.pc = "returned"
    /\ call.scrolled = 10
    /\ call.scrollAttempts = 10

\* ------------------------------------------------------------------------
\* processProductImages as one call (lines 1020-1129): the image URLs of a
\* product page, some of them recorded by an earlier extraction, and the
\* failures of the calls the loop awaits. fetch may reject or answer with a
\* status that is not ok; detectBarcode answers null and extractText an
\* empty text when they fail inside; toFile and addImage may throw.
\* ------------------------------------------------------------------------

\* most image URLs a product page lists
MaxGallery == 12

\* most calls that fail during one processProductImages call
MaxImageFailures == 1

GalleryProduct == <<"G", "T", "1", "0", "0", "A">>

\* image URL u of the site downloads as: a front label without a barcode, a
\* barcode beside a word no rule knows, a barcode alone
GalleryImage(u) ==
    IF u % 3 = 1
    THEN [ width |-> 1000, broken |-> "none", decodes |-> {}, symbol |-> <<>>,
           text |-> <<"O", "r", "g", "a", "n", "i", "c">> ]
    ELSE [ width |-> 1000, broken |-> "none", decodes |-> {"inverted"},
           symbol |-> <<"4", "0", "0", "6", "3", "8", "1", "3", "3", "3", "9", "3", "1">>,
           text |-> IF u % 3 = 2 THEN <<"t", "e", "a">> ELSE <<>> ]

\* the listings of a page: `len` URLs, repeating after `period` of them
Gallery(len, period) == [n \in 1..len |-> ((n - 1) % period) + 1]

\* the rows an earlier extraction left for the URLs in `recorded`
RECURSIVE RecordedRows(_)
RecordedRows(recorded) ==
    IF recorded = {} THEN <<>>
    ELSE LET u == CHOOSE x \in recorded : \A y \in recorded : x <= y
         IN <<[ product_id |-> GalleryProduct, image_url |-> u, tag |-> "other",
                barcode |-> Null, ocr_text |-> <<>> ]>> \o RecordedRows(recorded \ {u})

DefaultConfig == [enableBarcode |-> enableBarcode, enableOCR |-> enableOCR]

\* the catch of line 1111 rethrows instead of logging
afterImageError_Rethrown(p) == [p EXCEPT !.pc = "throw"]

\* lines 1111-1113: the error is written to the console, nothing else
afterImageError(p) == [p EXCEPT !.pc = "delay"]

GalleryFrame == [p |-> procs[1], products |-> products, images |-> images]

GallerySettled(w) ==
    /\ procs' = [procs EXCEPT ![1] = w.p]
    /\ images' = w.images
    /\ products' = w.products

MayFail == Cardinality(call.failed) < MaxImageFailures

Failed(kind) == [call EXCEPT !.failed = @ \cup {<<procs[1].i, kind>>}]

InitGallery ==
    /\ InitCrawl
    /\ \E len \in 0..MaxGallery, period \in {3, MaxGallery}, recorded \in { {}, {2}, {1, 11} } :
         LET w == imageLoop([ p |-> [NoProc EXCEPT !.productId = GalleryProduct,
                                                   !.imageUrls = Gallery(len, period),
                                                   !.i = 1, !.ocrFields = EmptyObject],
                              products |-> <<>>,
                              images |-> RecordedRows(recorded) ])
         IN /\ procs = [j \in Jobs |-> IF j = 1 THEN w.p ELSE NoProc]
            /\ products = w.products
            /\ images = w.images
            /\ call = [ fn |-> "processProductImages", before |-> images,
                        fetched |-> {}, recognized |-> {}, stored |-> {}, failed |-> {} ]

\* fetch resolves with the image, resolves with a status that is not ok
\* (`continue`: on to the next URL without the delay), or rejects
GalleryFetch ==
    /\ procs[1].pc = "fetch"
    /\ \/ /\ procs' = [procs EXCEPT ![1] = afterFetch(@, DefaultConfig)]
          /\ call' = [call EXCEPT !.fetched = @ \cup {procs[1].i}]
          /\ UNCHANGED <<products, images>>
       \/ /\ MayFail
          /\ GallerySettled(imageLoop([GalleryFrame EXCEPT !.p.i = @ + 1]))
          /\ call' = [Failed("status") EXCEPT !.fetched = @ \cup {procs[1].i}]
       \/ /\ MayFail
          /\ procs' = [procs EXCEPT ![1] = afterImageError(@)]
          /\ call' = [Failed("fetch") EXCEPT !.fetched = @ \cup {procs[1].i}]
          /\ UNCHANGED <<products, images>>
    /\ UNCHANGED crawlVars

\* detectBarcode resolves: with what the image decodes to, or with null
\* after an error inside
GalleryDetect ==
    /\ procs[1].pc = "detect"
    /\ \E fails \in {FALSE, TRUE} :
          /\ fails => MayFail
          /\ LET barcodeResult == IF fails THEN Null
                                  ELSE detectBarcode(GalleryImage(procs[1].imageUrls[procs[1].i]))
             IN /\ procs' = [procs EXCEPT ![1] = afterDetect(@, DefaultConfig, barcodeResult)]
                /\ crawler' = [crawler EXCEPT !.stats.barcodes =
                                                 IF barcodeResult # Null THEN @ + 1 ELSE @]
          /\ call' = [(IF fails THEN Failed("detectBarcode") ELSE call)
                         EXCEPT !.recognized = @ \cup {procs[1].i}]
    /\ UNCHANGED <<products, images>>
    /\ UNCHANGED <<job, flow, server, chromium, obs>>

\* extractText resolves: with the text of the image, or with the empty text
\* after an error inside
GalleryOcr ==
    /\ procs[1].pc = "ocr"
    /\ \E fails \in {FALSE, TRUE} :
          /\ fails => MayFail
          /\ procs' = [procs EXCEPT ![1] =
                          afterOcr(@, IF fails THEN <<>>
                                      ELSE extractText(GalleryImage(procs[1].imageUrls[procs[1].i])))]
          /\ call' = [(IF fails THEN Failed("extractText") ELSE call)
                         EXCEPT !.recognized = @ \cup {procs[1].i}]
    /\ UNCHANGED <<products, images>>
    /\ UNCHANGED crawlVars

\* toFile resolves and the row is added and counted, or one of the two throws
GallerySave ==
    /\ procs[1].pc = "toFile"
    /\ \/ /\ images' = addImage(images, imageRow(procs[1]))
          /\ crawler' = [crawler EXCEPT !.stats.images = @ + 1]
          /\ procs' = [procs EXCEPT ![1].pc = "delay"]
          /\ call' = [call EXCEPT !.stored = @ \cup {procs[1].i}]
       \/ /\ MayFail
          /\ procs' = [procs EXCEPT ![1] = afterImageError(@)]
          /\ call' = Failed("save")
          /\ UNCHANGED <<images, crawler>>
    /\ UNCHANGED products
    /\ UNCHANGED <<job, flow, server, chromium, obs>>

\* the delay between images resolves: on to the next URL, or to the end
GalleryDelay ==
    /\ procs[1].pc = "delay"
    /\ GallerySettled(imageLoop([GalleryFrame EXCEPT !.p.i = @ + 1]))
    /\ UNCHANGED call
    /\ UNCHANGED crawlVars

NextGallery == GalleryFetch \/ GalleryDetect \/ GalleryOcr \/ GallerySave \/ GalleryDelay

SpecGallery == InitGallery /\ [][NextGallery]_vars

\* C33: processProductImages downloads and recognizes URLs of the first 10
\* positions only (skipped positions count), no URL that has a row for this
\* product when it is downloaded or recognized, and a call adds at most 10
\* rows.
C33_FirstTenUnrecordedImagesOnly ==
    /\ [](call.fetched \cup call.recognized \cup call.stored \subseteq 1..10)
    /\ [](Len(images) - Len(call.before) <= 10)
    /\ [][ \A i \in (call'.fetched \ call.fetched) \cup (call'.recognized \ call.recognized) :
              ~\E n \in DOMAIN images :
                  /\ images[n].product_id = procs[1].productId
                  /\ images[n].image_url = procs[1].imageUrls[i] ]_vars

\* a page listing 12 distinct images, two of them recorded before: the call
\* has returned having skipped position 1, stored positions 2 to 10 and left
\* position 12 alone
C33_Witness ==
    /\ call.fn = "processProductImages"
    /\ procs[1].pc = "close"
    /\ Len(procs[1].imageUrls) = 12
    /\ Len(call.before) = 2
    /\ call.fetched = 2..10
    /\ call.stored = 2..10

\* the rows the call has added
AddedRows == { n \in DOMAIN images : n > Len(call.before) }

\* C35: an image whose barcode was decoded (stored with the decode's
\* confidence, counted in stats.barcodes) is stored with tag barcode,
\* whatever its OCR text is.
C35_DecodedImageIsTaggedBarcode ==
    \A n \in AddedRows :
        (images[n].barcode # Null /\ images[n].barcode[1].confidence = DecodedConfidence)
            => images[n].tag = "barcode"

\* the failures after which nothing of the image may be kept
DownloadAndSave == {"status", "fetch", "save"}

Recognition == {"detectBarcode", "extractText"}

\* a failure of one of `kinds` leaves no row and no count for its position
NothingKept(kinds) ==
    /\ \A f \in call.failed : f[2] \in kinds => f[1] \notin call.stored
    /\ crawler.stats.images = Cardinality(call.stored)
    /\ Len(images) = Len(call.before) + Cardinality(call.stored)

\* the step in which a call of one of `kinds` fails touches neither the
\* tables nor the counters nor the job
Contained(kinds) ==
    \A f \in call'.failed \ call.failed :
        f[2] \in kinds =>
            /\ images' = images
            /\ crawler'.stats.images = crawler.stats.images
            /\ crawler'.stats.errors = crawler.stats.errors
            /\ job' = job

\* the call returns, and only after the last of the first 10 positions
LoopCompletes ==
    /\ procs[1].pc # "throw"
    /\ procs[1].pc = "close" =>
          \A i \in 1..Len(procs[1].imageUrls) :
              i <= ImageLimit =>
                  \/ i \in call.fetched
                  \/ imageExists(images, procs[1].productId, procs[1].imageUrls[i])

HomePageSteps == {"homeGoto", "homeClose"}

ProductPageSteps == {"prodGoto", "prodExtract", "prodImage", "prodClose"}

ListingPageSteps ==
    {"listGoto", "scroll", "extractLinks", "hasNext", "catClose", "prodNewPage", "prodDelay"}
        \cup ProductPageSteps

\* C34: the homepage, listing and product pages a job opens are open only
\* while the operation that opened them runs, and closed when it ends,
\* normally or by failure; at most two pages are open at once (a listing
\* page and a product page), and none once startCrawl has left its
\* traversal.
C34_PagesClosedWithTheirOperation ==
    /\ Cardinality(flow.openPages) <= 2
    /\ flow.openPages \subseteq {"home", "listing", "product"}
    /\ "home" \in flow.openPages <=> flow.pc \in HomePageSteps
    /\ "listing" \in flow.openPages <=> flow.pc \in ListingPageSteps
    /\ "product" \in flow.openPages <=> flow.pc \in ProductPageSteps
    /\ flow.pc \in {"contextClose", "browserClose", "done"} => flow.openPages = {}

\* a product page failed to load under an open listing page; both were
\* closed and the run has ended
C34_Witness ==
    /\ flow.pc = "done"
    /\ flow.openPages = {}
    /\ obs.prodFailed >= 1
    /\ crawler.stats.categories >= 1

\* C37: at every product boundary of a run (no crawlProduct call under way)
\* the number of product URLs in discoveredProducts is stats.products plus
\* the number of products that failed, and while a product is being crawled
\* it is one more: every discovered URL is counted once, as processed or as
\* failed, and stats.products never exceeds the number of discovered URLs.
C37_DiscoveredIsProcessedPlusFailed ==
    /\ Cardinality(crawler.discoveredProducts) =
          crawler.stats.products + obs.prodFailed
             + (IF flow.pc \in {"prodNewPage"} \cup ProductPageSteps THEN 1 ELSE 0)
    /\ crawler.stats.products <= Cardinality(crawler.discoveredProducts)
    /\ obs.prodFailed <= crawler.stats.errors

\* after one product processed and one failed, between two products
C37_Witness ==
    /\ flow.pc = "prodDelay"
    /\ Cardinality(crawler.discoveredProducts) = 2
    /\ crawler.stats.products = 1
    /\ obs.prodFailed = 1

\* ------------------------------------------------------------------------
\* Traversal of a category whose every page shows the same product links
\* and a next-page control (a listing that answers any page number with a
\* full page). The site has no last page; the pages are followed up to page
\* MaxTurns. Nothing fails; a stop may be requested.
\* ------------------------------------------------------------------------

\* the page number up to which the endless listing is followed
MaxTurns == MaxPage + 2

EndlessLinks == <<1, 2>>

\* extractProductLinks returns the links every page of the listing shows
EndlessExtractLinks ==
    /\ At("extractLinks")
    /\ Becomes(AfterExtractLinks(World, EndlessLinks))

\* hasNextPage finds the next-page control every page of the listing shows
EndlessHasNext ==
    /\ At("hasNext")
    /\ flow.pageNum < MaxTurns
    /\ Becomes(AfterHasNext(World, TRUE))

NextEndless ==
    \/ StopRequest
    \/ CatNewPage \/ ListGoto \/ Scroll \/ EndlessExtractLinks \/ EndlessHasNext
    \/ CatClose \/ CatDelay
    \/ ProdNewPage \/ ProdGoto \/ ProdExtract \/ ProdImage \/ ProdClose \/ ProdDelay
    \/ ContextClose \/ BrowserClose

SpecEndless == InitTraversal /\ [][NextEndless]_vars

\* C36: the traversal of a category ends of itself, whatever the site: on
\* the listing whose every page shows product links and a next-page
\* control, with no stop requested, crawlCategory has left its page loop
\* before the last page the listing is followed to is loaded.
C36_TraversalEndsOfItself ==
    (~crawler.stopRequested /\ flow.pc \in ListingPageSteps \ {"catClose"})
        => flow.pageNum < MaxTurns

\* C39: generateProductId never returns an empty identity (under
\* SpecIdentity): whatever the URL and the declared SKU, a SKU made only of
\* non-alphanumeric characters included, the identity derived for a product
\* is a non-empty string of at most 12 uppercase alphanumeric characters.
C39_IdentityIsNeverEmpty ==
    \A j \in Jobs :
        procs[j].pc # "idle" =>
            LET productId == procs[j].productId
            IN /\ productId # <<>>
               /\ Len(productId) <= 12
               /\ stripNonAlphanumeric(productId) = productId
               /\ toUpperCase(productId) = productId

====
